---- MODULE Spec2Model ----
(***************************************************************************)
(* Model of the resilient API client substrate of acc-mcp-server:          *)
(* the credential manager (auth.py), the metadata fetch with token healing *)
(* (api.py get_view_guid_only), the generic request wrapper                *)
(* (api.py make_api_request), the pagination engine                        *)
(* (api.py fetch_paginated_data) and the identity resolver                 *)
(* (api.py get_acting_user_id, get_user_id_by_email).                      *)
(***************************************************************************)
EXTENDS Integers, Sequences, FiniteSets, TLC

\* ------------------------------------------------------------------------
\* Bounds of the model
\* ------------------------------------------------------------------------
NumCallers == 2
MaxExchanges == 2
TickSec == 30
MaxTicks == 3
NumHubs == 1
NumUsers == 2
PageLimit == 2
MaxChain == 3
DirLimit == 2
MaxDirPages == 2
MaxKeys == 2

\* ------------------------------------------------------------------------
\* Program constants
\* ------------------------------------------------------------------------
SafetyMargin == 60
HttpOk == 200
HttpErrorFloor == 400
ViewAttempts == 2
MAX_PAGES == 50

Callers == 1..NumCallers

\* the latest time of the model
MaxNow == TickSec * MaxTicks

\* None of Python, for a token, an id or a return value
None == 0
\* the value standing for "the call raised"
Raised == -1
\* no HTTP response at all: requests raised (timeout, connection failure)
NetFail == 0

TokenStatuses == {200, 201, 401, 500}
Bodies == {"ok", "no_expiry", "bad"}
ExpiresIn == {60, 120}

VARIABLES
    configured,    \* APS_CLIENT_ID and APS_CLIENT_SECRET are both set
    token_cache,   \* auth._token_cache
    now,           \* time.time(), in seconds
    issued,        \* tokens the token endpoint has issued so far
    exchanges,     \* token-exchange requests sent so far
    pc,            \* position of each caller inside get_token
    force_refresh, \* argument of each caller's current get_token call
    expires_in,    \* token_data["expires_in"] of the response a caller holds
    ret,           \* what each caller's last get_token call returned
    clr,           \* position inside clear_token_cache
    h_posted,      \* history: the caller's current call sent an exchange
    h_expired0,    \* history: the cache was expired when the caller's call began
    h_cache0,      \* history: the cache when the latest call began
    h_resp,        \* history: status of the latest exchange response
    h_cleared,     \* history: the last token that a clear removed
    h_after_clear  \* history: "none", "pending" after a clear, "first" during
                   \* the first get_token call after it

authVars == <<configured, token_cache, now, issued, exchanges, pc,
              force_refresh, expires_in, ret, clr, h_posted, h_expired0, h_cache0, h_resp, h_cleared, h_after_clear>>

VARIABLES
    v_pc,          \* position inside get_view_guid_only
    v_attempt,     \* the loop variable attempt
    v_token,       \* the token of the current attempt
    v_fresh,       \* history: that token came from an exchange of this attempt
    v_log,         \* history: the metadata requests sent, in order
    v_resps,       \* history: the statuses received, in order
    v_result       \* how the call ended

viewVars == <<v_pc, v_attempt, v_token, v_fresh, v_log, v_resps, v_result>>

VARIABLES
    r_pc,          \* position inside make_api_request
    r_token,       \* the token of the request
    r_sent,        \* history: the requests sent by the current call
    r_resps,       \* history: the statuses received by the current call
    r_data,        \* id of the first entry of the decoded "data" list, None
                   \* without such a list, or NoId for an entry without id
    r_result       \* what the call returned

reqVars == <<r_pc, r_token, r_sent, r_resps, r_data, r_result>>

VARIABLES
    hub_cache,     \* api.hub_cache["id"]
    hub_pc,        \* position inside get_cached_hub_id
    hub_ret        \* what get_cached_hub_id returned

hubVars == <<hub_cache, hub_pc, hub_ret>>

VARIABLES
    env_admin_id,    \* os.environ ACC_ADMIN_ID, or None
    admin_email_set, \* ACC_ADMIN_EMAIL is configured
    acting_memo,     \* the lru_cache of get_acting_user_id
    a_pc,            \* position inside get_acting_user_id
    a_key,           \* the account_id argument, or None
    a_email,         \* the requester_email argument, or the empty email
    a_acct,          \* local account_id after line 594
    a_strategy,      \* the strategy whose directory search is running
    a_ret,           \* what get_acting_user_id returned
    h_consulted,     \* history: the strategies this call has consulted
    h_areq,          \* history: hub and directory requests of this call
    h_hit,           \* history: this call was answered by the lru_cache
    h_ghost          \* history: the keys used so far, least recently used
                     \* first, each with the value its last call returned

actVars == <<env_admin_id, admin_email_set, acting_memo, a_pc, a_key, a_email,
             a_acct, a_strategy, a_ret, h_consulted, h_areq, h_hit, h_ghost>>

VARIABLES
    d_pc,          \* position inside get_user_id_by_email
    d_target,      \* local target_email
    d_variant,     \* the strategy of the for loop, 1..3
    d_offset,      \* local offset
    d_status,      \* resp.status_code of the last answer
    d_world,       \* what each variant does for the target
    d_result,      \* what get_user_id_by_email returned
    h_dlog         \* history: variant and offset of the requests of this search

dirVars == <<d_pc, d_target, d_variant, d_offset, d_status, d_world, d_result,
             h_dlog>>

VARIABLES
    pg_pc,         \* position inside fetch_paginated_data
    pg_style,      \* argument style
    pg_imp,        \* argument impersonate
    all_items,     \* local all_items
    page_count,    \* local page_count
    current_url,   \* local current_url, or None
    offset,        \* local offset
    first_request, \* local first_request
    pg_uid,        \* headers["x-user-id"], or None when absent
    pg_resp,       \* local resp
    pg_result,     \* what the call returned
    h_reqs,        \* history: x-user-id of the requests sent for this page
    h_sent,        \* history: page requests sent by this call
    h_served,      \* history: items the server has put into pages
    h_expected,    \* history: the items of the pages accepted so far
    h_fail,        \* history: how the call ended
    h_esc,         \* history: the escalation of this page: the acting id
                   \* found, and x-user-id of the request that got 401
    h_log,         \* history: url and offset of every request of this call
    h_all_ok       \* history: every answer of this call so far was a 200

pageVars == <<pg_pc, pg_style, pg_imp, all_items, page_count, current_url,
              offset, first_request, pg_uid, pg_resp, pg_result, h_reqs,
              h_sent, h_served, h_expected, h_fail, h_esc, h_log, h_all_ok>>

pageLog == <<h_log, h_all_ok>>

VARIABLES
    w_top,           \* the project: what get_top_folders answers
    w_tree,          \* the project: its folder tree
    w_fail,          \* the project: the folders whose contents request fails
    f_pc,            \* position inside find_design_files
    f_exts,          \* local ext_list
    folder_queue,    \* local folder_queue: folder ids with their depths
    folders_scanned, \* local folders_scanned
    matching_files,  \* local matching_files
    f_ret,           \* what find_design_files returned
    h_fetched,       \* history: the folders whose contents this walk requested
    s_pc,            \* position inside resolve_file_to_urn
    s_ident,         \* argument identifier
    s_exts,          \* local extensions_to_try
    s_idx,           \* position of the running search in extensions_to_try
    s_ret,           \* what resolve_file_to_urn returned or raised
    h_searches       \* history: the searches of this call with their results

locVars == <<w_top, w_tree, w_fail, f_pc, f_exts, folder_queue, folders_scanned,
             matching_files, f_ret, h_fetched, s_pc, s_ident, s_exts, s_idx,
             s_ret, h_searches>>

VARIABLES
    sc_pc,           \* position inside the streaming category scanner
    sc_cat,          \* argument: the category term
    sc_doc,          \* the metadata document the server streams
    sc_pos,          \* how much of the document has been read
    sc_buf,          \* the rolling buffer
    sc_count,        \* the match count
    sc_ret,          \* what the scanner returned or raised
    h_k,             \* history: the field values of the document with the term
    h_straddle       \* history: a counted match began before a chunk boundary

scanVars == <<sc_pc, sc_cat, sc_doc, sc_pos, sc_buf, sc_count, sc_ret, h_k,
              h_straddle>>

VARIABLES
    hc_pc,           \* position of each caller inside get_cached_hub_id
    hc_ret,          \* what get_cached_hub_id returned to each caller
    h_hreq,          \* history: the hub-list requests sent
    h_late           \* history: the caller's call began with an id cached

hubcVars == <<hc_pc, hc_ret, h_hreq, h_late>>

VARIABLES
    x_pc,            \* position inside trigger_data_extraction
    x_account,       \* local account_id
    x_headers,       \* local headers: the value of each header set
    x_result,        \* what trigger_data_extraction returned
    h_xreq,          \* history: the headers of the export requests of this call
    h_xhub,          \* history: what the hub lookup of this call returned
    h_xuid           \* history: what get_acting_user_id returned to this call

expVars == <<x_pc, x_account, x_headers, x_result, h_xreq, h_xhub, h_xuid>>

VARIABLES
    vr_pc,           \* position inside the version or file resolver
    vr_fn,           \* the function called: "latest" for get_latest_version_urn,
                     \* "resolve" for resolve_to_version_id, "locate" for
                     \* resolve_file_to_urn
    vr_arg,          \* the identifier passed
    vr_ret,          \* what the function returned
    h_vtok,          \* history: this call has called get_token
    h_vreq,          \* history: the item requests and folder searches of this call
    h_vok,           \* history: this call ended with an identifier it did not
                     \* fall back to
    h_prev           \* history: the call before

verVars == <<vr_pc, vr_fn, vr_arg, vr_ret, h_vtok, h_vreq, h_vok, h_prev>>

VARIABLES
    i_pc,            \* position inside inspect_generic_file
    i_resolved,      \* local resolved_id
    i_branch,        \* the branch of lines 1308-1325 taken
    i_version,       \* local version_urn
    i_result,        \* what inspect_generic_file returned
    h_icase,         \* history: the outcome that this call met
    h_iexc,          \* history: the text of the exception that this call met
    h_iprev          \* history: the outcome and the result of the call before

insVars == <<i_pc, i_resolved, i_branch, i_version, i_result, h_icase, h_iexc, h_iprev>>

\* the variables of the tools that are modelled last
lateVars == <<expVars, verVars, insVars>>

\* the variables of the resource locator, of the scanner, of the callers
\* of the hub lookup and of the later tools, which the other components
\* leave alone
restVars == <<locVars, scanVars, hubcVars, lateVars>>

vars == <<authVars, viewVars, reqVars, hubVars, actVars, dirVars, pageVars,
         restVars>>

EmptyCache == [access_token |-> None, expires_at |-> 0]

\* ------------------------------------------------------------------------
\* auth.py
\* ------------------------------------------------------------------------

\* line 44: the cached token is still valid
CacheValid_AlwaysStale(t, cache) == FALSE
CacheValid(t, cache) == t < cache.expires_at

\* line 44: the whole test; a forced call never uses the cache
UseCache(force, t, cache) == ~force /\ CacheValid(t, cache)

\* requests' Response.raise_for_status: raises for 4xx and 5xx only
RaisesForStatus(status) == status >= HttpErrorFloor

\* lines 64-66: the response is rejected
ExchangeRejected(status) == status # HttpOk /\ RaisesForStatus(status)

\* line 70: the expiry stored for a token received at time t
NewExpiry(t, ttl) == t + ttl - SafetyMargin

\* line 77: the token of the cleared cache
ClearedToken(cache) == None

\* line 78: the expiry of the cleared cache
ClearedExpiry_Keeps(cache) == cache.expires_at
ClearedExpiry(cache) == 0

AllIdle == clr = "idle" /\ \A p \in Callers : pc[p] = "idle"

\* get_token is entered (lines 26-41)
get_token_enter(p, f) ==
    /\ pc[p] = "idle"
    /\ force_refresh' = [force_refresh EXCEPT ![p] = f]
    /\ IF configured
         THEN /\ pc' = [pc EXCEPT ![p] = "check"]
              /\ ret' = [ret EXCEPT ![p] = None]
         ELSE /\ pc' = [pc EXCEPT ![p] = "done"]
              /\ ret' = [ret EXCEPT ![p] = Raised]
    /\ h_posted' = [h_posted EXCEPT ![p] = FALSE]
    /\ h_expired0' = [h_expired0 EXCEPT ![p] = ~CacheValid(now, token_cache)]
    /\ h_cache0' = token_cache
    /\ h_resp' = NetFail
    /\ h_after_clear' = IF h_after_clear = "pending" THEN "first" ELSE h_after_clear
    /\ UNCHANGED <<configured, token_cache, now, issued, exchanges, expires_in,
                   clr, h_cleared>>

\* line 44
get_token_check(p) ==
    /\ pc[p] = "check"
    /\ pc' = [pc EXCEPT ![p] = IF UseCache(force_refresh[p], now, token_cache)
                                 THEN "cached" ELSE "post"]
    /\ UNCHANGED <<configured, token_cache, now, issued, exchanges, force_refresh,
                   expires_in, ret, clr, h_posted, h_expired0, h_cache0,
                   h_resp, h_cleared, h_after_clear>>

\* line 46
get_token_cached(p) ==
    /\ pc[p] = "cached"
    /\ ret' = [ret EXCEPT ![p] = token_cache.access_token]
    /\ pc' = [pc EXCEPT ![p] = "done"]
    /\ UNCHANGED <<configured, token_cache, now, issued, exchanges, force_refresh,
                   expires_in, clr, h_posted, h_expired0, h_cache0,
                   h_resp, h_cleared, h_after_clear>>

\* lines 53-62: the exchange request is sent
get_token_post(p) ==
    /\ pc[p] = "post"
    /\ exchanges < MaxExchanges
    /\ exchanges' = exchanges + 1
    /\ h_posted' = [h_posted EXCEPT ![p] = TRUE]
    /\ pc' = [pc EXCEPT ![p] = "await"]
    /\ UNCHANGED <<configured, token_cache, now, issued, force_refresh, expires_in,
                   ret, clr, h_expired0, h_cache0, h_resp,
                   h_cleared, h_after_clear>>

\* lines 53-69: the request fails, or its response arrives, is tested,
\* decoded, and the token is stored
get_token_response(p, status, body, ttl) ==
    /\ pc[p] = "await"
    /\ h_resp' = status
    /\ IF status = NetFail \/ ExchangeRejected(status) \/ body = "bad"
         THEN /\ pc' = [pc EXCEPT ![p] = "done"]
              /\ ret' = [ret EXCEPT ![p] = Raised]
              /\ UNCHANGED <<token_cache, issued, expires_in>>
         ELSE /\ issued' = issued + 1
              /\ token_cache' = [token_cache EXCEPT !.access_token = issued + 1]
              /\ IF body = "no_expiry"
                   THEN /\ pc' = [pc EXCEPT ![p] = "done"]
                        /\ ret' = [ret EXCEPT ![p] = Raised]
                        /\ UNCHANGED expires_in
                   ELSE /\ pc' = [pc EXCEPT ![p] = "expiry"]
                        /\ expires_in' = [expires_in EXCEPT ![p] = ttl]
                        /\ UNCHANGED ret
    /\ UNCHANGED <<configured, now, exchanges, force_refresh, clr, h_posted, h_expired0, h_cache0, h_cleared, h_after_clear>>

\* line 70
get_token_expiry(p) ==
    /\ pc[p] = "expiry"
    /\ token_cache' = [token_cache EXCEPT !.expires_at = NewExpiry(now, expires_in[p])]
    /\ expires_in' = [expires_in EXCEPT ![p] = 0]
    /\ pc' = [pc EXCEPT ![p] = "return"]
    /\ UNCHANGED <<configured, now, issued, exchanges, force_refresh,
                   ret, clr, h_posted, h_expired0, h_cache0,
                   h_resp, h_cleared, h_after_clear>>

\* line 72
get_token_return(p) ==
    /\ pc[p] = "return"
    /\ ret' = [ret EXCEPT ![p] = token_cache.access_token]
    /\ pc' = [pc EXCEPT ![p] = "done"]
    /\ UNCHANGED <<configured, token_cache, now, issued, exchanges, force_refresh,
                   expires_in, clr, h_posted, h_expired0, h_cache0,
                   h_resp, h_cleared, h_after_clear>>

\* the caller takes the result of get_token and goes on
get_token_exit(p) ==
    /\ pc[p] = "done"
    /\ pc' = [pc EXCEPT ![p] = "idle"]
    /\ ret' = [ret EXCEPT ![p] = None]
    /\ force_refresh' = [force_refresh EXCEPT ![p] = FALSE]
    /\ h_posted' = [h_posted EXCEPT ![p] = FALSE]
    /\ h_expired0' = [h_expired0 EXCEPT ![p] = TRUE]
    /\ h_after_clear' = IF h_after_clear = "first" THEN "none" ELSE h_after_clear
    /\ h_cache0' = EmptyCache
    /\ h_resp' = NetFail
    /\ UNCHANGED <<configured, token_cache, now, issued, exchanges, expires_in,
                   clr, h_cleared>>

\* line 77
clear_token_cache_token ==
    /\ clr = "idle"
    /\ h_cleared' = IF token_cache.access_token # None
                     THEN token_cache.access_token ELSE h_cleared
    /\ token_cache' = [token_cache EXCEPT !.access_token = ClearedToken(token_cache)]
    /\ clr' = "expiry"
    /\ UNCHANGED <<configured, now, issued, exchanges, pc, force_refresh,
                   expires_in, ret, h_posted, h_expired0, h_cache0,
                   h_resp, h_after_clear>>

\* line 78
clear_token_cache_expiry ==
    /\ clr = "expiry"
    /\ token_cache' = [token_cache EXCEPT !.expires_at = ClearedExpiry(token_cache)]
    /\ clr' = "idle"
    /\ h_after_clear' = "pending"
    /\ UNCHANGED <<configured, now, issued, exchanges, pc, force_refresh,
                   expires_in, ret, h_posted, h_expired0, h_cache0,
                   h_resp, h_cleared>>

\* time passes
Tick ==
    /\ now + TickSec <= MaxNow
    /\ now' = now + TickSec
    /\ UNCHANGED <<configured, token_cache, issued, exchanges, pc, force_refresh,
                   expires_in, ret, clr, h_posted, h_expired0,
                   h_cache0, h_resp, h_cleared, h_after_clear>>

AuthInit ==
    /\ configured \in BOOLEAN
    /\ token_cache = EmptyCache
    /\ now = TickSec
    /\ issued = 0
    /\ exchanges = 0
    /\ pc = [p \in Callers |-> "idle"]
    /\ force_refresh = [p \in Callers |-> FALSE]
    /\ expires_in = [p \in Callers |-> 0]
    /\ ret = [p \in Callers |-> None]
    /\ clr = "idle"
    /\ h_posted = [p \in Callers |-> FALSE]
    /\ h_expired0 = [p \in Callers |-> TRUE]
    /\ h_cache0 = EmptyCache
    /\ h_resp = NetFail
    /\ h_cleared = None
    /\ h_after_clear = "none"

\* the steps inside one get_token call
get_token_step(p) ==
    \/ get_token_check(p)
    \/ get_token_cached(p)
    \/ get_token_post(p)
    \/ pc[p] = "await" /\
          \E s \in TokenStatuses \cup {NetFail}, b \in Bodies, ttl \in ExpiresIn :
              get_token_response(p, s, b, ttl)
    \/ get_token_expiry(p)
    \/ get_token_return(p)
    \/ get_token_exit(p)

\* the steps of a get_token call made from inside another operation
get_token_inner(p) ==
    \/ get_token_check(p)
    \/ get_token_cached(p)
    \/ get_token_post(p)
    \/ pc[p] = "await" /\
          \E s \in TokenStatuses \cup {NetFail}, b \in Bodies, ttl \in ExpiresIn :
              get_token_response(p, s, b, ttl)
    \/ get_token_expiry(p)
    \/ get_token_return(p)

\* ------------------------------------------------------------------------
\* api.py get_view_guid_only
\* ------------------------------------------------------------------------

\* the caller whose get_token calls an invocation under study makes
Me == 1

ViewStatuses == {200, 401, 404, 500}
ViewBodies == {"views", "no_views", "bad"}

\* line 1545: is_retry
IsRetry_Never(attempt) == FALSE
IsRetry(attempt) == attempt = 1

\* line 1541: another attempt follows this one
HasNextAttempt(attempt) == attempt + 1 < ViewAttempts

\* lines 1563-1619: what a metadata response (or the failure to get one)
\* raises or returns
ViewOutcome(status, body) ==
    IF status = NetFail THEN "request_error"
    ELSE IF status = 401 THEN "auth_failure"
    ELSE IF status = 404 THEN "not_found"
    ELSE IF status # HttpOk THEN "api_error"
    ELSE IF body = "bad" THEN "request_error"
    ELSE IF body = "no_views" THEN "no_views"
    ELSE "guid"

view_start ==
    /\ v_pc = "idle"
    /\ AllIdle
    /\ v_pc' = "attempt"
    /\ UNCHANGED <<v_attempt, v_token, v_fresh, v_log, v_resps, v_result>>
    /\ UNCHANGED authVars

\* line 1550: get_token(force_refresh=is_retry) is called
view_get_token ==
    /\ v_pc = "attempt"
    /\ get_token_enter(Me, IsRetry(v_attempt))
    /\ v_pc' = "token"
    /\ UNCHANGED <<v_attempt, v_token, v_fresh, v_log, v_resps, v_result>>

\* line 1550: get_token returns or raises (lines 1607-1619 handle the raise)
view_take_token ==
    /\ v_pc = "token"
    /\ pc[Me] = "done"
    /\ get_token_exit(Me)
    /\ IF ret[Me] # Raised
         THEN /\ v_token' = ret[Me]
              /\ v_fresh' = (h_posted[Me] /\ ret[Me] = issued /\ issued > 0)
              /\ v_pc' = "request"
              /\ UNCHANGED <<v_attempt, v_result>>
         ELSE /\ IF HasNextAttempt(v_attempt)
                   THEN /\ v_attempt' = v_attempt + 1
                        /\ v_pc' = "attempt"
                        /\ UNCHANGED v_result
                   ELSE /\ v_result' = "token_error"
                        /\ v_pc' = "done"
                        /\ UNCHANGED v_attempt
              /\ UNCHANGED <<v_token, v_fresh>>
    /\ UNCHANGED <<v_log, v_resps>>

\* lines 1563-1619: the metadata request and the handling of its outcome
view_request(status, body) ==
    /\ v_pc = "request"
    /\ v_log' = Append(v_log, [tok |-> v_token, fresh |-> v_fresh])
    /\ v_resps' = Append(v_resps, status)
    /\ IF ViewOutcome(status, body) = "guid"
         THEN /\ v_result' = "guid"
              /\ v_pc' = "done"
              /\ UNCHANGED v_attempt
         ELSE IF HasNextAttempt(v_attempt)
         THEN /\ v_attempt' = v_attempt + 1
              /\ v_pc' = "attempt"
              /\ UNCHANGED v_result
         ELSE /\ v_result' = ViewOutcome(status, body)
              /\ v_pc' = "done"
              /\ UNCHANGED v_attempt
    /\ UNCHANGED <<v_token, v_fresh>>
    /\ UNCHANGED authVars

\* the caller takes the result
view_exit ==
    /\ v_pc = "done"
    /\ v_pc' = "idle"
    /\ v_attempt' = 0
    /\ v_token' = None
    /\ v_fresh' = FALSE
    /\ v_log' = <<>>
    /\ v_resps' = <<>>
    /\ v_result' = "none"
    /\ UNCHANGED authVars

ViewInit ==
    /\ v_pc = "idle"
    /\ v_attempt = 0
    /\ v_token = None
    /\ v_fresh = FALSE
    /\ v_log = <<>>
    /\ v_resps = <<>>
    /\ v_result = "none"

\* ------------------------------------------------------------------------
\* api.py make_api_request
\* ------------------------------------------------------------------------

ApiStatuses == {200, 401, 404, 429, 500}

\* line 44: the response is an error
IsApiError(status) == status >= HttpErrorFloor

\* line 41: get_token() is called
request_get_token ==
    /\ r_pc = "start"
    /\ get_token_enter(Me, FALSE)
    /\ r_pc' = "token"
    /\ UNCHANGED <<r_token, r_sent, r_resps, r_data, r_result>>

\* line 41: get_token returns or raises (lines 48-50 handle the raise)
request_take_token ==
    /\ r_pc = "token"
    /\ pc[Me] = "done"
    /\ get_token_exit(Me)
    /\ IF ret[Me] # Raised
         THEN /\ r_token' = ret[Me]
              /\ r_pc' = "send"
              /\ UNCHANGED r_result
         ELSE /\ r_result' = "error"
              /\ r_pc' = "done"
              /\ UNCHANGED r_token
    /\ UNCHANGED <<r_sent, r_resps, r_data>>

\* lines 43-50: the request and the handling of its outcome
request_send(status, body, first) ==
    /\ r_pc = "send"
    /\ r_sent' = Append(r_sent, r_token)
    /\ r_resps' = Append(r_resps, status)
    /\ r_result' = IF status = NetFail \/ IsApiError(status) \/ body = "bad"
                      THEN "error" ELSE "json"
    /\ r_data' = IF status = NetFail \/ IsApiError(status) \/ body = "bad"
                    THEN None ELSE first
    /\ r_pc' = "done"
    /\ UNCHANGED r_token
    /\ UNCHANGED authVars

\* make_api_request is called on its own
request_start ==
    /\ r_pc = "idle"
    /\ AllIdle
    /\ r_pc' = "start"
    /\ UNCHANGED <<r_token, r_sent, r_resps, r_data, r_result>>
    /\ UNCHANGED authVars

\* the caller takes the result
request_exit ==
    /\ r_pc = "done"
    /\ r_pc' = "idle"
    /\ r_token' = None
    /\ r_sent' = <<>>
    /\ r_resps' = <<>>
    /\ r_data' = None
    /\ r_result' = "none"
    /\ UNCHANGED authVars

ReqInit ==
    /\ r_pc = "idle"
    /\ r_token = None
    /\ r_sent = <<>>
    /\ r_resps = <<>>
    /\ r_data = None
    /\ r_result = "none"

\* ------------------------------------------------------------------------
\* api.py get_cached_hub_id
\* ------------------------------------------------------------------------

HubIds == 1..NumHubs
\* the first entry of the "data" list of an answer carries no "id"
NoId == -3
\* what the hub list of an answer can hold
HubData == HubIds \cup {None, NoId}

\* line 505: data["data"][0]["id"] raises
HubRaises(result, data) == result = "json" /\ data = NoId

\* line 504: the answer names a hub
HubFound(result, data) == result = "json" /\ data \in HubIds

\* lines 500-503: the cached id is returned, or the hub list is requested
hub_lookup ==
    /\ hub_pc = "call"
    /\ IF hub_cache # None
         THEN /\ hub_ret' = hub_cache
              /\ hub_pc' = "done"
              /\ UNCHANGED reqVars
         ELSE /\ r_pc = "idle"
              /\ r_pc' = "start"
              /\ hub_pc' = "wait"
              /\ UNCHANGED <<hub_ret, r_token, r_sent, r_resps, r_data, r_result>>
    /\ UNCHANGED <<hub_cache, authVars>>

\* lines 503-508: make_api_request has returned
hub_take ==
    /\ hub_pc = "wait"
    /\ request_exit
    /\ IF HubRaises(r_result, r_data)
         THEN /\ hub_ret' = Raised
              /\ UNCHANGED hub_cache
         ELSE IF HubFound(r_result, r_data)
         THEN /\ hub_cache' = r_data
              /\ hub_ret' = r_data
         ELSE /\ hub_ret' = None
              /\ UNCHANGED hub_cache
    /\ hub_pc' = "done"

\* get_cached_hub_id called by several invocations at a time: each caller
\* tests the cache, sends the hub-list request and stores its answer
MaxHubRequests == 3

\* lines 500-503: the cache is tested; a caller that finds no id sends the
\* hub-list request
hubc_check(p) ==
    /\ hc_pc[p] = "idle"
    /\ h_late' = [h_late EXCEPT ![p] = hub_cache # None]
    /\ IF hub_cache # None
         THEN /\ hc_ret' = [hc_ret EXCEPT ![p] = hub_cache]
              /\ hc_pc' = [hc_pc EXCEPT ![p] = "done"]
              /\ UNCHANGED h_hreq
         ELSE /\ h_hreq < MaxHubRequests
              /\ h_hreq' = h_hreq + 1
              /\ hc_pc' = [hc_pc EXCEPT ![p] = "wait"]
              /\ UNCHANGED hc_ret
    /\ UNCHANGED hub_cache

\* lines 503-508: the request has returned; an id found is stored
hubc_answer(p, result, data) ==
    /\ hc_pc[p] = "wait"
    /\ IF HubRaises(result, data)
         THEN /\ hc_ret' = [hc_ret EXCEPT ![p] = Raised]
              /\ UNCHANGED hub_cache
         ELSE IF HubFound(result, data)
         THEN /\ hub_cache' = data
              /\ hc_ret' = [hc_ret EXCEPT ![p] = data]
         ELSE /\ hc_ret' = [hc_ret EXCEPT ![p] = None]
              /\ UNCHANGED hub_cache
    /\ hc_pc' = [hc_pc EXCEPT ![p] = "done"]
    /\ UNCHANGED <<h_hreq, h_late>>

\* the caller has taken the result
hubc_exit(p) ==
    /\ hc_pc[p] = "done"
    /\ hc_pc' = [hc_pc EXCEPT ![p] = "idle"]
    /\ hc_ret' = [hc_ret EXCEPT ![p] = None]
    /\ h_late' = [h_late EXCEPT ![p] = FALSE]
    /\ UNCHANGED <<hub_cache, h_hreq>>

HubcInit ==
    /\ hc_pc = [p \in Callers |-> "idle"]
    /\ hc_ret = [p \in Callers |-> None]
    /\ h_hreq = 0
    /\ h_late = [p \in Callers |-> FALSE]

HubInit ==
    /\ hub_cache = None
    /\ hub_pc = "idle"
    /\ hub_ret = None

\* ------------------------------------------------------------------------
\* api.py get_acting_user_id
\* ------------------------------------------------------------------------

UserIds == 1..NumUsers
\* the id that ACC_ADMIN_ID names, when it is set
EnvAdminId == NumUsers + 1
\* no entry in the lru_cache
Absent == -2
\* line 586: maxsize of the lru_cache
MemoSize == 16

\* an email is a sequence of characters; no requester email is the empty one
NoEmail == <<>>
\* the email a caller passes as requester_email: that of user 1, in the
\* caller's spelling
RequesterEmails == {<<" ", "A">>}
\* ACC_ADMIN_EMAIL, when it is set: the email of user 2
AdminEmail == <<"B">>

\* str.lower() on the characters of the model
LowerChar(c) ==
    CASE c = "A" -> "a" [] c = "B" -> "b" [] c = "D" -> "d" [] c = "G" -> "g"
      [] c = "R" -> "r" [] c = "T" -> "t" [] c = "V" -> "v" [] c = "W" -> "w"
      [] c = "X" -> "x" [] OTHER -> c
Lower(s) == [i \in 1..Len(s) |-> LowerChar(s[i])]

\* str.strip(): blanks at both ends are removed
RECURSIVE StripLeft(_)
StripLeft(s) == IF s # <<>> /\ Head(s) = " " THEN StripLeft(Tail(s)) ELSE s
RECURSIVE StripRight(_)
StripRight(s) ==
    IF s # <<>> /\ s[Len(s)] = " " THEN StripRight(SubSeq(s, 1, Len(s) - 1)) ELSE s
Strip(s) == StripRight(StripLeft(s))

\* lines 520 and 566: email.lower().strip()
Normalize(e) == Strip(Lower(e))

\* the arguments of the current call: the key of the lru_cache
Key == <<a_key, a_email>>

\* line 586: the lru_cache is a list of entries, least recently used first
MemoHas(memo, key) == \E i \in 1..Len(memo) : memo[i].key = key
MemoIndex(memo, key) == CHOOSE i \in 1..Len(memo) : memo[i].key = key
MemoLookup(memo, key) ==
    IF MemoHas(memo, key) THEN memo[MemoIndex(memo, key)].val ELSE Absent

\* line 586: an entry leaves the list
MemoDrop(memo, i) == [j \in 1..(Len(memo) - 1) |-> IF j < i THEN memo[j] ELSE memo[j + 1]]

\* line 586: a hit makes the entry the most recently used
MemoTouch_Forgets(memo, key) == MemoDrop(memo, MemoIndex(memo, key))
MemoTouch(memo, key) ==
    Append(MemoDrop(memo, MemoIndex(memo, key)), memo[MemoIndex(memo, key)])

\* line 586: a returned value is stored under its key; a full cache drops
\* its least recently used entry
Memoize_Small(memo, key, val) ==
    IF Len(memo) >= MemoSize - 1
      THEN Append(Tail(memo), [key |-> key, val |-> val])
      ELSE Append(memo, [key |-> key, val |-> val])
Memoize(memo, key, val) ==
    IF Len(memo) >= MemoSize
      THEN Append(Tail(memo), [key |-> key, val |-> val])
      ELSE Append(memo, [key |-> key, val |-> val])

\* lines 607 and 613: the strategy that searches the directory first
FirstStrategy(email) == IF email # NoEmail THEN "requester" ELSE "admin"

\* lines 610 and 617: the search yielded nothing, the next strategy is tried
SearchGoesOn_Always(uid) == TRUE
SearchGoesOn(uid) == uid = None

\* the email a strategy looks up
StrategyEmail(strategy, email) == IF strategy = "requester" THEN email ELSE AdminEmail

\* line 587: get_acting_user_id(account, email) is called
acting_enter(account, email) ==
    /\ a_pc = "idle"
    /\ a_pc' = "call"
    /\ a_key' = account
    /\ a_email' = email
    /\ UNCHANGED <<env_admin_id, admin_email_set, acting_memo, a_acct, a_strategy,
                   a_ret, h_consulted, h_areq, h_hit, h_ghost>>

\* the caller takes the result
acting_exit ==
    /\ a_pc = "done"
    /\ a_pc' = "idle"
    /\ a_key' = None
    /\ a_email' = NoEmail
    /\ a_acct' = None
    /\ a_strategy' = "none"
    /\ a_ret' = None
    /\ h_consulted' = <<>>
    /\ h_areq' = 0
    /\ h_hit' = FALSE
    /\ h_ghost' = Append(IF MemoHas(h_ghost, Key)
                            THEN MemoDrop(h_ghost, MemoIndex(h_ghost, Key))
                            ELSE h_ghost,
                          [key |-> Key, val |-> a_ret])
    /\ UNCHANGED <<env_admin_id, admin_email_set, acting_memo>>

\* line 586: the lru_cache stores whatever the function returns, None too
Memoizes_IdsOnly(val) == val # None
Memoizes(val) == TRUE

\* lines 598, 604, 610, 618, 627 and 586: a value is returned and memoized
acting_return(val) ==
    /\ a_ret' = val
    /\ acting_memo' = IF Memoizes(val) THEN Memoize(acting_memo, Key, val) ELSE acting_memo
    /\ a_pc' = "done"

\* line 586: the lru_cache has the result
acting_hit ==
    /\ a_pc = "call"
    /\ MemoLookup(acting_memo, Key) # Absent
    /\ a_ret' = MemoLookup(acting_memo, Key)
    /\ acting_memo' = MemoTouch(acting_memo, Key)
    /\ a_pc' = "done"
    /\ h_hit' = TRUE
    /\ UNCHANGED <<env_admin_id, admin_email_set, a_key, a_email, a_acct,
                   a_strategy, h_consulted, h_areq, h_ghost>>
    /\ UNCHANGED <<authVars, hubVars>>

\* line 593: the account id was passed
acting_miss ==
    /\ a_pc = "call"
    /\ MemoLookup(acting_memo, Key) = Absent
    /\ a_key # None
    /\ a_acct' = a_key
    /\ a_pc' = "env"
    /\ UNCHANGED <<env_admin_id, admin_email_set, acting_memo, a_key, a_email,
                   a_strategy, a_ret, h_consulted, h_areq, h_hit, h_ghost>>
    /\ UNCHANGED <<authVars, hubVars>>

\* lines 593-594: without an account id, get_cached_hub_id() is called
acting_call_hub ==
    /\ a_pc = "call"
    /\ MemoLookup(acting_memo, Key) = Absent
    /\ a_key = None
    /\ hub_pc = "idle"
    /\ hub_pc' = "call"
    /\ a_pc' = "hub"
    /\ h_areq' = h_areq + (IF hub_cache = None THEN 1 ELSE 0)
    /\ UNCHANGED <<env_admin_id, admin_email_set, acting_memo, a_key, a_email,
                   a_acct, a_strategy, a_ret, h_consulted, h_hit, h_ghost>>
    /\ UNCHANGED <<authVars, hub_cache, hub_ret>>

\* lines 594-598: without a hub id None is returned; line 594 is outside
\* the try of line 600, so what get_cached_hub_id raises leaves the call
\* (and the lru_cache stores nothing)
acting_hub_take ==
    /\ a_pc = "hub"
    /\ hub_pc = "done"
    /\ hub_pc' = "idle"
    /\ hub_ret' = None
    /\ a_acct' = IF hub_ret = Raised THEN None ELSE hub_ret
    /\ IF hub_ret = Raised
         THEN /\ a_ret' = Raised
              /\ a_pc' = "done"
              /\ UNCHANGED acting_memo
         ELSE IF hub_ret = None
         THEN acting_return(None)
         ELSE /\ a_pc' = "env"
              /\ UNCHANGED <<a_ret, acting_memo>>
    /\ UNCHANGED <<env_admin_id, admin_email_set, a_key, a_email, a_strategy,
                   h_consulted, h_areq, h_hit, h_ghost>>
    /\ UNCHANGED <<authVars, hub_cache>>

\* lines 602-604 and 613-627: ACC_ADMIN_ID is returned when it is set; None
\* is returned when there is no email to look up
acting_direct ==
    /\ a_pc = "env"
    /\ env_admin_id # None \/ (a_email = NoEmail /\ ~admin_email_set)
    /\ acting_return(env_admin_id)
    /\ h_consulted' = Append(h_consulted, [strategy |-> "override", yield |-> env_admin_id])
    /\ UNCHANGED <<env_admin_id, admin_email_set, a_key, a_email, a_acct,
                   a_strategy, h_areq, h_hit, h_ghost>>
    /\ UNCHANGED <<authVars, hubVars>>

\* lines 607-609, 613-616 and 517: get_user_id_by_email begins with get_token()
acting_get_token ==
    /\ \/ a_pc = "env" /\ env_admin_id = None /\ (a_email # NoEmail \/ admin_email_set)
       \/ a_pc = "admin"
    /\ get_token_enter(Me, FALSE)
    /\ a_pc' = "token"
    /\ a_strategy' = IF a_pc = "env" THEN FirstStrategy(a_email) ELSE "admin"
    /\ h_consulted' = IF a_pc = "env"
                        THEN Append(h_consulted, [strategy |-> "override", yield |-> None])
                        ELSE h_consulted
    /\ UNCHANGED <<env_admin_id, admin_email_set, acting_memo, a_key, a_email,
                   a_acct, a_ret, h_areq, h_hit, h_ghost>>
    /\ UNCHANGED hubVars

\* line 517: get_token returns or raises (lines 624-627 handle the raise)
acting_take_token ==
    /\ a_pc = "token"
    /\ pc[Me] = "done"
    /\ get_token_exit(Me)
    /\ IF ret[Me] # Raised
         THEN /\ a_pc' = "search"
              /\ UNCHANGED <<acting_memo, a_ret, h_consulted>>
         ELSE /\ acting_return(None)
              /\ h_consulted' = Append(h_consulted, [strategy |-> a_strategy, yield |-> None])
    /\ UNCHANGED <<env_admin_id, admin_email_set, a_key, a_email, a_acct,
                   a_strategy, h_areq, h_hit, h_ghost>>
    /\ UNCHANGED hubVars

\* lines 609-627: get_user_id_by_email has returned uid
after_search(uid) ==
    /\ h_consulted' = Append(h_consulted, [strategy |-> a_strategy, yield |-> uid])
    /\ IF ~SearchGoesOn(uid)
         THEN acting_return(uid)
         ELSE IF a_strategy = "requester" /\ admin_email_set
         THEN /\ a_pc' = "admin"
              /\ UNCHANGED <<a_ret, acting_memo>>
         ELSE acting_return(None)
    /\ UNCHANGED <<env_admin_id, admin_email_set, a_key, a_email, a_acct,
                   a_strategy, h_hit, h_ghost>>
    /\ UNCHANGED <<authVars, hubVars>>

\* lines 529-584: the directory search as one step, ending with an id or
\* without (its steps are dir_start, dir_request and acting_search_take)
acting_search(uid) ==
    /\ a_pc = "search"
    /\ d_pc = "idle"
    /\ after_search(uid)
    /\ h_areq' = h_areq + 1

\* api.py line 892 and 951, server.py line 750: a tool calls the resolver;
\* the callers of a run use at most MaxKeys different keys
act_call(account, email) ==
    /\ AllIdle /\ r_pc = "idle" /\ hub_pc = "idle" /\ d_pc = "idle"
    /\ MemoHas(h_ghost, <<account, email>>) \/ Len(h_ghost) < MaxKeys
    /\ acting_enter(account, email)
    /\ UNCHANGED <<authVars, hubVars>>

\* the tool takes the result
act_return ==
    /\ acting_exit
    /\ UNCHANGED <<authVars, hubVars>>

\* the user that has an email, when the directory lists it
UserOf(email) == IF Normalize(email) = <<"a">> THEN 1 ELSE 2

\* a key that a caller uses again and again, and MemoSize keys that other
\* callers use once each
ProbeKey == <<1, <<" ", "A">>>>
FillerKey(i) == <<1, [j \in 1..i |-> "c"]>>
NumFillers == Cardinality({i \in 1..Len(h_ghost) : h_ghost[i].key # ProbeKey})

\* what the directory search of a strategy yields for these keys: user 1 or
\* nothing for the probe's requester, nothing for the other requesters, who
\* are not in the directory, and user 2 for the administrator email, or
\* nothing when the probe's call finds the directory without it
MemoYields(key, strategy) ==
    IF strategy = "admin"
      THEN (IF key = ProbeKey THEN {UserOf(AdminEmail), None} ELSE {UserOf(AdminEmail)})
    ELSE IF key = ProbeKey THEN {UserOf(key[2]), None}
    ELSE {None}

\* a tool calls the resolver with the probe key or with the next new key
memo_call(key) ==
    /\ AllIdle /\ r_pc = "idle" /\ hub_pc = "idle" /\ d_pc = "idle"
    /\ key = ProbeKey \/ (NumFillers < MemoSize /\ key = FillerKey(NumFillers + 1))
    /\ acting_enter(key[1], key[2])
    /\ UNCHANGED <<authVars, hubVars>>

ActInit ==
    /\ acting_memo = <<>>
    /\ a_pc = "idle"
    /\ a_key = None
    /\ a_email = NoEmail
    /\ a_acct = None
    /\ a_strategy = "none"
    /\ a_ret = None
    /\ h_consulted = <<>>
    /\ h_areq = 0
    /\ h_hit = FALSE
    /\ h_ghost = <<>>

\* ------------------------------------------------------------------------
\* api.py get_user_id_by_email
\* ------------------------------------------------------------------------

\* lines 523-527: the directory variants: 1 ACC Admin, 2 HQ US, 3 HQ EU
NumVariants == 3
IsAcc(variant) == variant = 1

DirStatuses == {200, 404, 500}

\* the users a directory can list: user 1 and user 2 in the directory's
\* spelling, and a user without an email
DirUsers ==
    {[email |-> <<"A", " ">>, id |-> 1], [email |-> <<"b">>, id |-> 2],
     [email |-> <<>>, id |-> 2]}
DirPages == UNION {[1..n -> DirUsers] : n \in 0..DirLimit}

\* a page lists an email: one of its users has it, whatever the case and
\* the blanks around it
Lists(page, target) ==
    \E i \in 1..Len(page) : Normalize(page[i].email) = Normalize(target)

\* line 566: the user's email is the target
Matches_Exact(u_email, target) == u_email = target
Matches(u_email, target) == u_email # <<>> /\ Normalize(u_email) = target

\* lines 564-568: the id of the first user of the page that matches
HasMatch(page, target) == \E i \in 1..Len(page) : Matches(page[i].email, target)
FirstMatch(page, target) ==
    page[CHOOSE i \in 1..Len(page) :
            /\ Matches(page[i].email, target)
            /\ \A j \in 1..(i - 1) : ~Matches(page[j].email, target)].id

\* lines 547-557: decoding the answer raises (no JSON, or a list where the
\* ACC Admin variant expects an object)
DecodeRaises(variant, kind) == kind = "bad" \/ (IsAcc(variant) /\ kind = "list")

\* line 576: after the loop was left, the search ends without a result
StopsSearch_Always(status) == TRUE
StopsSearch(status) == status = HttpOk

\* what a variant does for the target in a world: it lists it ("found"),
\* answers completely without it ("absent"), or fails before ("failed")
WorldKinds == {"found", "absent", "failed"}
Worlds == [1..NumVariants -> WorldKinds]
NoWorld == [v \in 1..NumVariants |-> "none"]

DirOk(kind, page) == [status |-> HttpOk, kind |-> kind, users |-> page]
DirKinds(variant) == IF IsAcc(variant) THEN {"dict"} ELSE {"list", "dict"}

\* the answers of a variant to the request at an offset: full pages without
\* the target while the list goes on (at most MaxDirPages pages), then the
\* answer that the world names
DirAnswers(kind, variant, off, target) ==
    (IF off + DirLimit < DirLimit * MaxDirPages
       THEN {DirOk(k, p) : k \in DirKinds(variant),
                           p \in {q \in DirPages : Len(q) = DirLimit /\ ~Lists(q, target)}}
       ELSE {})
    \cup
    (CASE kind = "found" ->
            {DirOk(k, p) : k \in DirKinds(variant),
                           p \in {q \in DirPages : Lists(q, target)}}
       [] kind = "absent" ->
            {DirOk(k, p) : k \in DirKinds(variant),
                           p \in {q \in DirPages : Len(q) < DirLimit /\ ~Lists(q, target)}}
       [] OTHER ->
            {[status |-> s, kind |-> "none", users |-> <<>>] :
                 s \in (DirStatuses \ {HttpOk}) \cup {NetFail}}
            \cup {DirOk("bad", <<>>)}
            \cup (IF IsAcc(variant) THEN {DirOk("list", <<>>)} ELSE {}))

\* lines 517-533: the search begins at the first variant
dir_start(world) ==
    /\ a_pc = "search"
    /\ d_pc = "idle"
    /\ d_pc' = "request"
    /\ d_world' = world
    /\ d_target' = Normalize(StrategyEmail(a_strategy, a_email))
    /\ d_variant' = 1
    /\ d_offset' = 0
    /\ UNCHANGED <<d_status, d_result, h_dlog>>

\* lines 535-584: one request of the user list and what follows from its answer
dir_request(ans) ==
    /\ d_pc = "request"
    /\ h_dlog' = Append(h_dlog, [variant |-> d_variant, offset |-> d_offset])
    /\ d_status' = IF ans.status = NetFail THEN d_status ELSE ans.status
    /\ LET raised == ans.status = NetFail
                       \/ (ans.status = HttpOk /\ DecodeRaises(d_variant, ans.kind))
           decoded == ans.status = HttpOk /\ ~raised
       IN  IF decoded /\ HasMatch(ans.users, d_target)
             THEN /\ d_result' = FirstMatch(ans.users, d_target)
                  /\ d_pc' = "done"
                  /\ UNCHANGED <<d_variant, d_offset>>
           ELSE IF decoded /\ Len(ans.users) >= DirLimit
             THEN /\ d_offset' = d_offset + DirLimit
                  /\ UNCHANGED <<d_pc, d_variant, d_result>>
           ELSE IF (~raised /\ StopsSearch(ans.status)) \/ d_variant >= NumVariants
             THEN /\ d_result' = None
                  /\ d_pc' = "done"
                  /\ UNCHANGED <<d_variant, d_offset>>
           ELSE /\ d_variant' = d_variant + 1
                /\ d_offset' = 0
                /\ UNCHANGED <<d_pc, d_result>>
    /\ UNCHANGED <<d_target, d_world>>

\* the caller takes the result
dir_exit ==
    /\ d_pc = "done"
    /\ d_pc' = "idle"
    /\ d_target' = <<>>
    /\ d_variant' = 0
    /\ d_offset' = 0
    /\ d_status' = 0
    /\ d_world' = NoWorld
    /\ d_result' = None
    /\ h_dlog' = <<>>

\* lines 609-610 and 616-618: get_user_id_by_email has returned
acting_search_take ==
    /\ a_pc = "search"
    /\ after_search(d_result)
    /\ h_areq' = h_areq + Len(h_dlog)
    /\ dir_exit

DirInit ==
    /\ d_pc = "idle"
    /\ d_target = <<>>
    /\ d_variant = 0
    /\ d_offset = 0
    /\ d_status = 0
    /\ d_world = NoWorld
    /\ d_result = None
    /\ h_dlog = <<>>

\* ------------------------------------------------------------------------
\* api.py fetch_paginated_data
\* ------------------------------------------------------------------------

PageStatuses == {200, 401, 403, 404, 429, 500}
Styles == {"url", "offset"}
\* the url argument; the next link of a page names the url after its own
StartUrl == 1
NextUrl(u) == u + 1

\* a field of a decoded object: absent, not a list, or a list
NoField == [is |-> "absent", v |-> <<>>]
ScalarField == [is |-> "scalar", v |-> <<>>]
ListField(items) == [is |-> "list", v |-> items]

\* the items first+1 .. first+n
Ids(first, n) == [i \in 1..n |-> first + i]

\* the decoded bodies a page answer can have when the server has served
\* `served` items so far: a bare list, an object, or no JSON at all
Fields(first) == {NoField, ScalarField} \cup {ListField(Ids(first, n)) : n \in 0..PageLimit}
PageBodies(served) ==
    {[kind |-> "list", items |-> Ids(served, n), data |-> NoField,
      results |-> NoField, next |-> FALSE] : n \in 0..PageLimit}
    \cup {[kind |-> "dict", items |-> <<>>, data |-> d, results |-> r, next |-> nx] :
             d \in Fields(served), r \in Fields(served), nx \in BOOLEAN}
    \cup {[kind |-> "bad", items |-> <<>>, data |-> NoField, results |-> NoField,
           next |-> FALSE]}
\* the bodies the server sends in this model: a chain of pages that goes on
\* is at most MaxChain pages long
PageAnswers(style, count, served) ==
    {b \in PageBodies(served) :
        (IF style = "url" THEN b.kind = "dict" /\ b.next
                          ELSE (IF b.kind = "list" THEN Len(b.items)
                                ELSE IF b.data.is = "list" THEN Len(b.data.v)
                                ELSE Len(b.results.v)) >= PageLimit)
            => count + 1 < MaxChain}
\* the bodies the server sends when its chain of pages has no end: full
\* pages that go on, and pages of any size that end the chain
LongAnswers(style, served) ==
    {b \in {[kind |-> "dict", items |-> <<>>, data |-> ListField(Ids(served, k)),
             results |-> NoField, next |-> nx] :
                k \in 0..PageLimit, nx \in {FALSE, style = "url"}} :
        b.next => Len(b.data.v) = PageLimit}
NoBody == [kind |-> "bad", items |-> <<>>, data |-> NoField, results |-> NoField,
           next |-> FALSE]
NoResp == [status |-> NetFail, body |-> NoBody]

\* lines 780-788: the batch of a decoded page
Batch_DataOnly(body) ==
    IF body.kind = "list" THEN body.items
    ELSE IF body.data.is = "list" THEN body.data.v
    ELSE <<>>
Batch(body) ==
    IF body.kind = "list" THEN body.items
    ELSE IF body.data.is = "list" THEN body.data.v
    ELSE IF body.results.is = "list" THEN body.results.v
    ELSE <<>>

\* line 738: the escalation is entered
Escalates(status, imp) == status = 401 /\ imp

\* lines 749-758: the page is requested again with the id found
EscalationApplies_Always(admin_id, current) == admin_id # None
EscalationApplies(admin_id, current) == admin_id # None /\ current # admin_id

\* line 763: statuses taken as an inactive module, not as an error
IsSoftFailure(status) == status \in {403, 404}

\* line 772: the failure is returned as an error string
FailsLoudly_Always(first) == TRUE
FailsLoudly_Never(first) == FALSE
FailsLoudly(first) == first

\* line 713: the loop goes on
LoopGoesOn_NoCap(url, count) == url # None
LoopGoesOn(url, count) == url # None /\ count < MAX_PAGES

\* line 719: the acting identity is put into the headers
Injects_Never(imp) == FALSE
Injects(imp) == imp

\* lines 729-734: what a page request asks for: the url, and the offset
\* when the style is 'offset' (no query parameters otherwise)
NoParams == -1
Request(url, style, off) ==
    [url |-> url, offset |-> IF style = "offset" THEN off ELSE NoParams]

\* lines 793-799: the url of the next round
FollowLink_Skips(body, url) ==
    IF body.kind = "dict" /\ body.next THEN NextUrl(NextUrl(url)) ELSE None
FollowLink(body, url) ==
    IF body.kind = "dict" /\ body.next THEN NextUrl(url) ELSE None

\* line 804: the offset of the next round
NextOffset_Stays(off, limit) == off
NextOffset(off, limit) == off + limit

\* lines 699-711
page_start(style, imp) ==
    /\ UNCHANGED pageLog
    /\ pg_pc = "idle"
    /\ AllIdle /\ r_pc = "idle" /\ hub_pc = "idle" /\ a_pc = "idle"
    /\ pg_pc' = "loop"
    /\ pg_style' = style
    /\ pg_imp' = imp
    /\ all_items' = <<>>
    /\ page_count' = 0
    /\ current_url' = StartUrl
    /\ offset' = 0
    /\ first_request' = TRUE
    /\ UNCHANGED <<pg_uid, pg_resp, pg_result, h_reqs, h_sent, h_served,
                   h_expected, h_fail, h_esc>>
    /\ UNCHANGED <<authVars, reqVars, hubVars, actVars>>

\* lines 713 and 813: the loop ends and all_items is returned
page_return ==
    /\ UNCHANGED pageLog
    /\ pg_pc = "loop"
    /\ ~LoopGoesOn(current_url, page_count)
    /\ pg_pc' = "done"
    /\ pg_result' = "list"
    /\ UNCHANGED <<pg_style, pg_imp, all_items, page_count, current_url, offset,
                   first_request, pg_uid, pg_resp, h_reqs, h_sent, h_served,
                   h_expected, h_fail, h_esc>>
    /\ UNCHANGED <<authVars, reqVars, hubVars, actVars>>

\* lines 713-716: the next round begins with get_token()
page_get_token ==
    /\ UNCHANGED pageLog
    /\ pg_pc = "loop"
    /\ LoopGoesOn(current_url, page_count)
    /\ get_token_enter(Me, FALSE)
    /\ pg_pc' = "token"
    /\ pg_uid' = None
    /\ pg_resp' = NoResp
    /\ h_reqs' = <<>>
    /\ h_esc' = [done |-> FALSE, found |-> None, carried |-> None]
    /\ UNCHANGED <<pg_style, pg_imp, all_items, page_count, current_url, offset,
                   first_request, pg_result, h_sent, h_served, h_expected, h_fail>>
    /\ UNCHANGED <<reqVars, hubVars, actVars>>

\* lines 809-813: an exception in the loop body is logged, the loop is left
\* and all_items is returned, on the first page as on a later one
AfterException_Loud(first) == IF first THEN "error" ELSE "list"

AfterException(first) == "list"

\* lines 715-719: get_token returns or raises (lines 809-813 handle the raise)
page_take_token ==
    /\ UNCHANGED pageLog
    /\ pg_pc = "token"
    /\ pc[Me] = "done"
    /\ get_token_exit(Me)
    /\ IF ret[Me] # Raised
         THEN /\ pg_pc' = IF Injects(pg_imp) THEN "inject_hub" ELSE "send"
              /\ UNCHANGED <<pg_result, h_fail>>
         ELSE /\ pg_pc' = "done"
              /\ pg_result' = AfterException(first_request)
              /\ h_fail' = [kind |-> "exception", status |-> NetFail]
    /\ UNCHANGED <<pg_style, pg_imp, all_items, page_count, current_url, offset,
                   first_request, pg_uid, pg_resp, h_reqs, h_sent, h_served,
                   h_expected, h_esc>>
    /\ UNCHANGED <<reqVars, hubVars, actVars>>

\* lines 721 and 743: get_cached_hub_id() is called
page_call_hub ==
    /\ UNCHANGED pageLog
    /\ pg_pc \in {"inject_hub", "esc_hub"}
    /\ hub_pc = "idle"
    /\ hub_pc' = "call"
    /\ pg_pc' = IF pg_pc = "inject_hub" THEN "inject_hub_wait" ELSE "esc_hub_wait"
    /\ UNCHANGED <<pg_style, pg_imp, all_items, page_count, current_url, offset,
                   first_request, pg_uid, pg_resp, pg_result, h_reqs, h_sent,
                   h_served, h_expected, h_fail, h_esc>>
    /\ UNCHANGED <<hub_cache, hub_ret>>
    /\ UNCHANGED <<authVars, reqVars, actVars>>

\* lines 721-727: with a hub id, get_acting_user_id(clean_id(hub_id)) is
\* called; without one, or when the lookup raised, the request goes without
page_inject_hub_take ==
    /\ UNCHANGED pageLog
    /\ pg_pc = "inject_hub_wait"
    /\ hub_pc = "done"
    /\ hub_pc' = "idle"
    /\ hub_ret' = None
    /\ IF hub_ret \notin {None, Raised}
         THEN /\ acting_enter(hub_ret, NoEmail)
              /\ pg_pc' = "inject_uid_wait"
         ELSE /\ pg_pc' = "send"
              /\ UNCHANGED actVars
    /\ UNCHANGED <<pg_style, pg_imp, all_items, page_count, current_url, offset,
                   first_request, pg_uid, pg_resp, pg_result, h_reqs, h_sent,
                   h_served, h_expected, h_fail, h_esc>>
    /\ UNCHANGED hub_cache
    /\ UNCHANGED <<authVars, reqVars>>

\* lines 723-725: the id found goes into the header
page_inject_uid_take ==
    /\ UNCHANGED pageLog
    /\ pg_pc = "inject_uid_wait"
    /\ acting_exit
    /\ pg_uid' = a_ret
    /\ pg_pc' = "send"
    /\ UNCHANGED <<pg_style, pg_imp, all_items, page_count, current_url, offset,
                   first_request, pg_resp, pg_result, h_reqs, h_sent,
                   h_served, h_expected, h_fail, h_esc>>
    /\ UNCHANGED <<authVars, reqVars, hubVars>>

\* line 734: the page request (lines 809-813 handle its failure)
page_send(status, body) ==
    /\ pg_pc = "send"
    /\ h_reqs' = Append(h_reqs, pg_uid)
    /\ h_sent' = h_sent + 1
    /\ h_log' = Append(h_log, Request(current_url, pg_style, offset))
    /\ h_all_ok' = (h_all_ok /\ status = HttpOk)
    /\ IF status = NetFail
         THEN /\ pg_pc' = "done"
              /\ pg_result' = AfterException(first_request)
              /\ h_fail' = [kind |-> "exception", status |-> NetFail]
              /\ UNCHANGED pg_resp
         ELSE /\ pg_resp' = [status |-> status, body |-> body]
              /\ pg_pc' = IF Escalates(status, pg_imp) THEN "esc_hub" ELSE "handle"
              /\ UNCHANGED <<pg_result, h_fail>>
    /\ UNCHANGED <<pg_style, pg_imp, all_items, page_count, current_url, offset,
                   first_request, pg_uid, h_served, h_expected, h_esc>>
    /\ UNCHANGED <<authVars, reqVars, hubVars, actVars>>

\* lines 743-744 and 760: with a hub id, the acting id is looked up again;
\* a lookup that raised is handled as one without result
page_esc_hub_take ==
    /\ UNCHANGED pageLog
    /\ pg_pc = "esc_hub_wait"
    /\ hub_pc = "done"
    /\ hub_pc' = "idle"
    /\ hub_ret' = None
    /\ IF hub_ret \notin {None, Raised}
         THEN /\ acting_enter(hub_ret, NoEmail)
              /\ pg_pc' = "esc_uid_wait"
              /\ UNCHANGED h_esc
         ELSE /\ pg_pc' = "handle"
              /\ h_esc' = [done |-> TRUE, found |-> None, carried |-> pg_uid]
              /\ UNCHANGED actVars
    /\ UNCHANGED <<pg_style, pg_imp, all_items, page_count, current_url, offset,
                   first_request, pg_uid, pg_resp, pg_result, h_reqs, h_sent,
                   h_served, h_expected, h_fail>>
    /\ UNCHANGED hub_cache
    /\ UNCHANGED <<authVars, reqVars>>

\* lines 744-758: the id found is compared with the header
page_esc_uid_take ==
    /\ UNCHANGED pageLog
    /\ pg_pc = "esc_uid_wait"
    /\ acting_exit
    /\ h_esc' = [done |-> TRUE, found |-> a_ret, carried |-> pg_uid]
    /\ IF EscalationApplies(a_ret, pg_uid)
         THEN /\ pg_uid' = a_ret
              /\ pg_pc' = "esc_send"
         ELSE /\ pg_pc' = "handle"
              /\ UNCHANGED pg_uid
    /\ UNCHANGED <<pg_style, pg_imp, all_items, page_count, current_url, offset,
                   first_request, pg_resp, pg_result, h_reqs, h_sent,
                   h_served, h_expected, h_fail>>
    /\ UNCHANGED <<authVars, reqVars, hubVars>>

\* line 756: the page is requested again (lines 760-761 handle its failure)
page_esc_send(status, body) ==
    /\ pg_pc = "esc_send"
    /\ h_reqs' = Append(h_reqs, pg_uid)
    /\ h_sent' = h_sent + 1
    /\ h_log' = Append(h_log, Request(current_url, pg_style, offset))
    /\ h_all_ok' = (h_all_ok /\ status = HttpOk)
    /\ pg_resp' = IF status = NetFail THEN pg_resp
                    ELSE [status |-> status, body |-> body]
    /\ pg_pc' = "handle"
    /\ UNCHANGED <<pg_style, pg_imp, all_items, page_count, current_url, offset,
                   first_request, pg_uid, pg_result, h_served, h_expected,
                   h_fail, h_esc>>
    /\ UNCHANGED <<authVars, reqVars, hubVars, actVars>>

\* lines 763-775: the final answer of the page is not 200
page_fail ==
    /\ UNCHANGED pageLog
    /\ pg_pc = "handle"
    /\ pg_resp.status # HttpOk
    /\ pg_pc' = "done"
    /\ pg_result' = IF ~IsSoftFailure(pg_resp.status) /\ FailsLoudly(first_request)
                      THEN "error" ELSE "list"
    /\ h_fail' = [kind |-> "status", status |-> pg_resp.status]
    /\ UNCHANGED <<pg_style, pg_imp, all_items, page_count, current_url, offset,
                   first_request, pg_uid, pg_resp, h_reqs, h_sent, h_served,
                   h_expected, h_esc>>
    /\ UNCHANGED <<authVars, reqVars, hubVars, actVars>>

\* line 777: the body of a 200 answer is no JSON (lines 809-813)
page_bad_json ==
    /\ UNCHANGED pageLog
    /\ pg_pc = "handle"
    /\ pg_resp.status = HttpOk
    /\ pg_resp.body.kind = "bad"
    /\ pg_pc' = "done"
    /\ pg_result' = AfterException(first_request)
    /\ h_fail' = [kind |-> "exception", status |-> HttpOk]
    /\ UNCHANGED <<pg_style, pg_imp, all_items, page_count, current_url, offset,
                   first_request, pg_uid, pg_resp, h_reqs, h_sent, h_served,
                   h_expected, h_esc>>
    /\ UNCHANGED <<authVars, reqVars, hubVars, actVars>>

\* lines 777-807: the page is accepted
page_accept ==
    /\ UNCHANGED pageLog
    /\ pg_pc = "handle"
    /\ pg_resp.status = HttpOk
    /\ pg_resp.body.kind # "bad"
    /\ first_request' = FALSE
    /\ all_items' = all_items \o Batch(pg_resp.body)
    /\ IF pg_style = "url"
         THEN /\ current_url' = FollowLink(pg_resp.body, current_url)
              /\ UNCHANGED offset
         ELSE IF Len(Batch(pg_resp.body)) < PageLimit
         THEN /\ current_url' = None
              /\ UNCHANGED offset
         ELSE /\ offset' = NextOffset(offset, PageLimit)
              /\ UNCHANGED current_url
    /\ page_count' = page_count + 1
    /\ h_served' = h_served + Len(Batch(pg_resp.body))
    /\ h_expected' = h_expected \o
           (IF pg_resp.body.kind = "list" THEN pg_resp.body.items
            ELSE IF pg_resp.body.data.is = "list" THEN pg_resp.body.data.v
            ELSE pg_resp.body.results.v)
    /\ pg_pc' = "loop"
    /\ UNCHANGED <<pg_style, pg_imp, pg_uid, pg_resp, pg_result, h_reqs, h_sent,
                   h_fail, h_esc>>
    /\ UNCHANGED <<authVars, reqVars, hubVars, actVars>>

\* the caller takes the result
page_exit ==
    /\ pg_pc = "done"
    /\ pg_pc' = "idle"
    /\ pg_style' = "url"
    /\ pg_imp' = FALSE
    /\ all_items' = <<>>
    /\ page_count' = 0
    /\ current_url' = None
    /\ offset' = 0
    /\ first_request' = TRUE
    /\ pg_uid' = None
    /\ pg_resp' = NoResp
    /\ pg_result' = "none"
    /\ h_reqs' = <<>>
    /\ h_sent' = 0
    /\ h_served' = 0
    /\ h_expected' = <<>>
    /\ h_fail' = [kind |-> "none", status |-> NetFail]
    /\ h_esc' = [done |-> FALSE, found |-> None, carried |-> None]
    /\ h_log' = <<>>
    /\ h_all_ok' = TRUE
    /\ UNCHANGED <<authVars, reqVars, hubVars, actVars>>

PageInit ==
    /\ pg_pc = "idle"
    /\ pg_style = "url"
    /\ pg_imp = FALSE
    /\ all_items = <<>>
    /\ page_count = 0
    /\ current_url = None
    /\ offset = 0
    /\ first_request = TRUE
    /\ pg_uid = None
    /\ pg_resp = NoResp
    /\ pg_result = "none"
    /\ h_reqs = <<>>
    /\ h_sent = 0
    /\ h_served = 0
    /\ h_expected = <<>>
    /\ h_fail = [kind |-> "none", status |-> NetFail]
    /\ h_esc = [done |-> FALSE, found |-> None, carried |-> None]
    /\ h_log = <<>>
    /\ h_all_ok = TRUE

\* ------------------------------------------------------------------------
\* api.py find_design_files
\* ------------------------------------------------------------------------

\* a name is a sequence of characters
Ext_rvt == <<"r", "v", "t">>
Ext_dwg == <<"d", "w", "g">>
Ext_nwc == <<"n", "w", "c">>
Ext_rcp == <<"r", "c", "p">>
Ext_ifc == <<"i", "f", "c">>
Ext_nwd == <<"n", "w", "d">>

\* str.endswith and the operator `in` of str
EndsWith(s, suffix) ==
    Len(s) >= Len(suffix) /\ SubSeq(s, Len(s) - Len(suffix) + 1, Len(s)) = suffix
Contains(s, part) ==
    \E i \in 0..(Len(s) - Len(part)) : SubSeq(s, i + 1, i + Len(part)) = part

File(name, id) == [type |-> "file", name |-> name, id |-> id]
Folder(id) == [type |-> "folder", name |-> <<>>, id |-> id]

\* the folder trees of the projects of this model. Folder 1 is the folder
\* the walk starts at and folder 7 is another, empty top-level folder.
\* "chain": one folder below the other, five levels deep, a file at every level
\* "shadow": the files d.rvt and d.DWG two levels down, and a file whose
\*           name contains the name d.rvt in the start folder
\* "mesh": four folders, each listing all four (cycles and shared subfolders)
TreeNames == {"chain", "shadow", "mesh"}
Contents(tree, id) ==
    CASE tree = "chain" ->
           (CASE id = 1 -> <<Folder(2), File(<<"x", "d", ".", "n", "w", "c">>, 11)>>
              [] id = 2 -> <<File(<<"d", ".", "p", "d", "f">>, 12), Folder(3)>>
              [] id = 3 -> <<File(<<"d", ".", "r", "v", "t">>, 13), Folder(4),
                             File(<<"d">>, 16)>>
              [] id = 4 -> <<File(<<"D", ".", "D", "W", "G">>, 14), Folder(5)>>
              [] id = 5 -> <<File(<<"e", ".", "r", "v", "t">>, 15), Folder(6)>>
              [] OTHER -> <<>>)
      [] tree = "shadow" ->
           (CASE id = 1 -> <<File(<<"X", "D", ".", "R", "V", "T">>, 11), Folder(2)>>
              [] id = 2 -> <<Folder(3)>>
              [] id = 3 -> <<File(<<"d", ".", "r", "v", "t">>, 13),
                             File(<<"d", ".", "D", "W", "G">>, 17)>>
              [] OTHER -> <<>>)
      [] OTHER ->
           IF id \in 1..4
             THEN <<Folder(1), Folder(2), Folder(3), Folder(4),
                    File(<<"d", ".", "n", "w", "d">>, 20 + id)>>
             ELSE <<>>
\* the folders whose contents request can fail (status not 200, or an
\* exception): none, or one of the first three
FailSets == {{}} \cup {{id} : id \in 1..3}

\* what get_top_folders answers: a list of folders, or an error string
TopFolder(name, id) == [name |-> name, id |-> id]
TopAnswers ==
    {[ok |-> TRUE, folders |-> <<TopFolder("Other", 7), TopFolder("Project Files", 1)>>],
     [ok |-> TRUE, folders |-> <<TopFolder("Other", 1), TopFolder("project files", 7)>>],
     [ok |-> TRUE, folders |-> <<>>],
     [ok |-> FALSE, folders |-> <<>>]}

\* lines 435-436
max_folders_to_scan == 50
max_depth == 3

\* lines 414-427: the folder the walk starts at, or None
StartFolder_First(top) == IF top # <<>> THEN top[1].id ELSE None
StartFolder(top) ==
    IF \E i \in 1..Len(top) : top[i].name = "Project Files"
      THEN top[CHOOSE i \in 1..Len(top) :
                  /\ top[i].name = "Project Files"
                  /\ \A j \in 1..(i - 1) : top[j].name # "Project Files"].id
    ELSE IF top # <<>> THEN top[1].id
    ELSE None

\* line 440: the loop goes on
WalkGoesOn_NoCap(queue, scanned) == queue # <<>>
WalkGoesOn(queue, scanned) == queue # <<>> /\ scanned < max_folders_to_scan

\* line 464: the name ends with one of the extensions
HasExtension_Cased(name, exts) ==
    \E i \in 1..Len(exts) : EndsWith(name, <<".">> \o exts[i])
HasExtension(name, exts) ==
    \E i \in 1..Len(exts) : EndsWith(Lower(name), <<".">> \o exts[i])

\* line 474: the subfolders of a folder of this depth are queued
Enqueues_Always(depth) == TRUE
Enqueues(depth) == depth < max_depth

NoFiles == [ok |-> FALSE, files |-> <<>>]

\* lines 392-408: find_design_files(hub_id, project_id, extensions) is called
find_begin(exts) ==
    /\ f_pc' = "top"
    /\ f_exts' = [i \in 1..Len(exts) |-> Lower(Strip(exts[i]))]
    /\ folder_queue' = <<>>
    /\ folders_scanned' = 0
    /\ matching_files' = <<>>
    /\ f_ret' = NoFiles
    /\ h_fetched' = <<>>

\* lines 408-437: the top folders are fetched and the walk is set up
find_top ==
    /\ f_pc = "top"
    /\ IF w_top.ok /\ StartFolder(w_top.folders) # None
         THEN /\ folder_queue' = <<[id |-> StartFolder(w_top.folders), depth |-> 0]>>
              /\ f_pc' = "scan"
              /\ UNCHANGED f_ret
         ELSE /\ f_ret' = NoFiles
              /\ f_pc' = "done"
              /\ UNCHANGED folder_queue
    /\ UNCHANGED <<w_top, w_tree, w_fail, f_exts, folders_scanned, matching_files,
                   h_fetched, s_pc, s_ident, s_exts, s_idx, s_ret, h_searches>>

\* line 441: folder_queue.pop(0)
Pop_Last(queue) == [current |-> queue[Len(queue)], rest |-> SubSeq(queue, 1, Len(queue) - 1)]
Pop(queue) == [current |-> Head(queue), rest |-> Tail(queue)]

\* lines 440-481: one folder is taken from the queue and scanned
find_scan ==
    /\ f_pc = "scan"
    /\ WalkGoesOn(folder_queue, folders_scanned)
    /\ LET current == Pop(folder_queue).current
           contents == Contents(w_tree, current.id)
           failed == current.id \in w_fail
       IN  /\ folders_scanned' = folders_scanned + 1
           /\ h_fetched' = Append(h_fetched, current)
           /\ matching_files' =
                 IF failed THEN matching_files
                 ELSE matching_files \o
                      SelectSeq(contents,
                                LAMBDA item : item.type = "file"
                                              /\ HasExtension(item.name, f_exts))
           /\ folder_queue' =
                 IF failed \/ ~Enqueues(current.depth) THEN Pop(folder_queue).rest
                 ELSE Pop(folder_queue).rest \o
                      [i \in 1..Len(SelectSeq(contents, LAMBDA item : item.type = "folder")) |->
                          [id |-> SelectSeq(contents, LAMBDA item : item.type = "folder")[i].id,
                           depth |-> current.depth + 1]]
    /\ UNCHANGED <<w_top, w_tree, w_fail, f_pc, f_exts, f_ret, s_pc, s_ident,
                   s_exts, s_idx, s_ret, h_searches>>

\* lines 440 and 483-488: the loop is left and the files found are returned
find_return ==
    /\ f_pc = "scan"
    /\ ~WalkGoesOn(folder_queue, folders_scanned)
    /\ f_ret' = [ok |-> TRUE, files |-> matching_files]
    /\ f_pc' = "done"
    /\ UNCHANGED <<w_top, w_tree, w_fail, f_exts, folder_queue, folders_scanned,
                   matching_files, h_fetched, s_pc, s_ident, s_exts, s_idx, s_ret,
                   h_searches>>

\* the caller takes the result
find_exit ==
    /\ f_pc' = "idle"
    /\ f_exts' = <<>>
    /\ folder_queue' = <<>>
    /\ folders_scanned' = 0
    /\ matching_files' = <<>>
    /\ f_ret' = NoFiles
    /\ h_fetched' = <<>>

\* ------------------------------------------------------------------------
\* api.py resolve_file_to_urn
\* ------------------------------------------------------------------------

\* line 1231
ExtList == <<Ext_rvt, Ext_dwg, Ext_nwc, Ext_rcp, Ext_ifc, Ext_nwd>>

UrnPrefix == <<"u", "r", "n", ":", "a", "d", "s", "k">>

\* the identifiers a caller passes: a URN, d.rvt, d.DWG, d.pdf and d
Identifiers ==
    {UrnPrefix, <<"d", ".", "r", "v", "t">>, <<"d", ".", "D", "W", "G">>,
     <<"d", ".", "p", "d", "f">>, <<"d">>}

\* line 1217: the identifier is a URN
IsUrn(ident) ==
    Len(ident) >= Len(UrnPrefix) /\ SubSeq(ident, 1, Len(UrnPrefix)) = UrnPrefix

\* line 1235: identifier.split(".")[-1].lower()
OwnExtension(ident) ==
    LET last == CHOOSE i \in 1..Len(ident) :
                    ident[i] = "." /\ \A j \in (i + 1)..Len(ident) : ident[j] # "."
    IN  Lower(SubSeq(ident, last + 1, Len(ident)))

\* lines 1231-1239: the extensions in the order of trying: the identifier's
\* own extension is moved to the front when the list has it
ExtensionsToTry_Fixed(ident) == ExtList
ExtensionsToTry(ident) ==
    IF (\E i \in 1..Len(ident) : ident[i] = ".")
         /\ (\E k \in 1..Len(ExtList) : ExtList[k] = OwnExtension(ident))
      THEN <<OwnExtension(ident)>>
               \o SelectSeq(ExtList, LAMBDA e : e # OwnExtension(ident))
      ELSE ExtList

\* lines 1249-1255 and 1268-1269: the file's name is or contains the identifier
NameMatches(ident, name) ==
    Lower(ident) = Lower(name) \/ Contains(Lower(name), Lower(ident))

\* the result of a call: an item id, the identifier itself, or a ValueError
Returned(kind, id) == [kind |-> kind, id |-> id]
NoReturn == Returned("none", None)

\* lines 1200-1225: resolve_file_to_urn(project_id, identifier) is called for
\* a project; a URN is returned as it is, for a file name the hub id is fetched
resolve_call(ident, top, tree, fail) ==
    /\ s_pc = "idle"
    /\ AllIdle /\ r_pc = "idle" /\ hub_pc = "idle"
    /\ s_ident' = ident
    /\ w_top' = top
    /\ w_tree' = tree
    /\ w_fail' = fail
    /\ IF IsUrn(ident)
         THEN /\ s_ret' = Returned("urn", None)
              /\ s_pc' = "done"
              /\ UNCHANGED hub_pc
         ELSE /\ hub_pc' = "call"
              /\ s_pc' = "hub"
              /\ UNCHANGED s_ret
    /\ UNCHANGED <<f_pc, f_exts, folder_queue, folders_scanned, matching_files,
                   f_ret, h_fetched, s_exts, s_idx, h_searches>>
    /\ UNCHANGED <<hub_cache, hub_ret>>

\* lines 1225-1243 and 1280-1282: without a hub id the call fails; with one
\* the first search begins
resolve_hub_take ==
    /\ s_pc = "hub"
    /\ hub_pc = "done"
    /\ hub_pc' = "idle"
    /\ hub_ret' = None
    /\ IF hub_ret \in {None, Raised}
         THEN /\ s_ret' = Returned(IF hub_ret = None THEN "no_hub" ELSE "error", None)
              /\ s_pc' = "done"
              /\ UNCHANGED <<f_pc, f_exts, folder_queue, folders_scanned,
                             matching_files, f_ret, h_fetched, s_exts, s_idx>>
         ELSE /\ s_exts' = ExtensionsToTry(s_ident)
              /\ s_idx' = 1
              /\ find_begin(<<ExtensionsToTry(s_ident)[1]>>)
              /\ s_pc' = "search"
              /\ UNCHANGED s_ret
    /\ UNCHANGED <<w_top, w_tree, w_fail, s_ident, h_searches>>
    /\ UNCHANGED hub_cache

\* lines 1251-1259 and 1267-1273: the first file of a search result that
\* matches, if there is one
HasMatching(files, ident) == \E i \in 1..Len(files) : NameMatches(ident, files[i].name)
FirstMatching(files, ident) ==
    files[CHOOSE i \in 1..Len(files) :
             /\ NameMatches(ident, files[i].name)
             /\ \A j \in 1..(i - 1) : ~NameMatches(ident, files[j].name)].id

\* line 1245: a search that failed ends the call
SearchErrorEnds_Never(idx) == FALSE
SearchErrorEnds(idx) == idx = 1

\* lines 1243-1276: a search has returned: the call ends with the first
\* matching file or with an error, or the next extension is searched
resolve_search_take ==
    /\ s_pc = "search"
    /\ f_pc = "done"
    /\ h_searches' = Append(h_searches, [ext |-> s_exts[s_idx], ok |-> f_ret.ok,
                                         files |-> f_ret.files,
                                         scanned |-> folders_scanned])
    /\ IF ~f_ret.ok /\ SearchErrorEnds(s_idx)
         THEN /\ s_ret' = Returned("search_error", None)
              /\ s_pc' = "done"
              /\ find_exit
              /\ UNCHANGED s_idx
       ELSE IF f_ret.ok /\ HasMatching(f_ret.files, s_ident)
         THEN /\ s_ret' = Returned("id", FirstMatching(f_ret.files, s_ident))
              /\ s_pc' = "done"
              /\ find_exit
              /\ UNCHANGED s_idx
       ELSE IF s_idx < Len(s_exts)
         THEN /\ s_idx' = s_idx + 1
              /\ find_begin(<<s_exts[s_idx + 1]>>)
              /\ UNCHANGED <<s_pc, s_ret>>
       ELSE /\ s_ret' = Returned("not_found", None)
            /\ s_pc' = "done"
            /\ find_exit
            /\ UNCHANGED s_idx
    /\ UNCHANGED <<w_top, w_tree, w_fail, s_ident, s_exts>>

\* the caller takes the result
resolve_exit ==
    /\ s_pc = "done"
    /\ s_pc' = "idle"
    /\ s_ident' = <<>>
    /\ s_exts' = <<>>
    /\ s_idx' = 0
    /\ s_ret' = NoReturn
    /\ h_searches' = <<>>
    /\ UNCHANGED <<w_top, w_tree, w_fail, f_pc, f_exts, folder_queue,
                   folders_scanned, matching_files, f_ret, h_fetched>>

LocInit ==
    /\ w_top = [ok |-> FALSE, folders |-> <<>>]
    /\ w_tree = "chain"
    /\ w_fail = {}
    /\ f_pc = "idle"
    /\ f_exts = <<>>
    /\ folder_queue = <<>>
    /\ folders_scanned = 0
    /\ matching_files = <<>>
    /\ f_ret = NoFiles
    /\ h_fetched = <<>>
    /\ s_pc = "idle"
    /\ s_ident = <<>>
    /\ s_exts = <<>>
    /\ s_idx = 0
    /\ s_ret = NoReturn
    /\ h_searches = <<>>

\* ------------------------------------------------------------------------
\* Streaming category scanner (stream_count_elements)
\* ------------------------------------------------------------------------

\* the documents: up to MaxPieces pieces, each a quoted field value or a
\* separator; the characters of a document arrive in chunks of 1..MaxChunk
MaxPieces == 3
MaxChunk == 3
\* the size of the tail that a pass without a match retains: one less than
\* the longest field value of these documents
TailSize == 4

Quote == "q"
Value_abs == <<"q", "a", "b", "s", "q">>
Value_Ab == <<"q", "A", "b", "q">>
Value_b == <<"q", "b", "q">>
Separator == <<",">>
Pieces == {Value_abs, Value_Ab, Value_b, Separator}
PieceSeqs == UNION {[1..n -> Pieces] : n \in 0..MaxPieces}
RECURSIVE Text(_)
Text(ps) == IF ps = <<>> THEN <<>> ELSE Head(ps) \o Text(Tail(ps))

Categories == {<<"a", "b", "s">>, <<"b", "s">>}
ScanStatuses == {200, 500}

\* the forms of the term that the pattern matches: the term, and its
\* singular when the term ends in "s" and is longer than two characters
Forms(cat) ==
    IF Len(cat) > 2 /\ cat[Len(cat)] = "s"
      THEN {cat, SubSeq(cat, 1, Len(cat) - 1)}
      ELSE {cat}

\* the pattern, without regard to case: a field value containing the term
ValueHasTerm(text, cat) == \E f \in Forms(Lower(cat)) : Contains(Lower(text), f)

\* the position of the first quote after position i, or 0
NextQuote(buf, i) ==
    IF \E j \in (i + 1)..Len(buf) : buf[j] = Quote
      THEN CHOOSE j \in (i + 1)..Len(buf) :
               buf[j] = Quote /\ \A k \in (i + 1)..(j - 1) : buf[k] # Quote
      ELSE 0

\* one pass of the pattern over a buffer from a position on: the number of
\* non-overlapping matches, where the first begins and where the last ends
RECURSIVE ScanFrom(_, _, _)
ScanFrom(buf, from, cat) ==
    IF from > Len(buf) THEN [n |-> 0, first |-> 0, end |-> 0]
    ELSE IF buf[from] # Quote THEN ScanFrom(buf, from + 1, cat)
    ELSE LET j == NextQuote(buf, from)
         IN  IF j = 0 THEN [n |-> 0, first |-> 0, end |-> 0]
             ELSE IF ValueHasTerm(SubSeq(buf, from + 1, j - 1), cat)
             THEN LET r == ScanFrom(buf, j + 1, cat)
                  IN  [n |-> r.n + 1, first |-> from,
                       end |-> IF r.n = 0 THEN j ELSE r.end]
             ELSE ScanFrom(buf, j, cat)

\* the buffer is advanced past the end of the last match
Advance_Keep(buf, end) == buf
Advance(buf, end) == SubSeq(buf, end + 1, Len(buf))

\* a pass without a match retains the tail of the buffer
Retained_None(buf) == <<>>
Retained(buf) ==
    IF Len(buf) > TailSize THEN SubSeq(buf, Len(buf) - TailSize + 1, Len(buf)) ELSE buf

ScanResult(kind, n) == [kind |-> kind, n |-> n]

\* the scan begins: the request is sent and the status is looked at
scan_open(ps, cat, status) ==
    /\ sc_pc = "idle"
    /\ sc_cat' = cat
    /\ sc_doc' = Text(ps)
    /\ h_k' = Cardinality({i \in 1..Len(ps) : ValueHasTerm(ps[i], cat)})
    /\ sc_pos' = 0
    /\ sc_buf' = <<>>
    /\ sc_count' = 0
    /\ h_straddle' = FALSE
    /\ IF status = HttpOk
         THEN sc_pc' = "read" /\ sc_ret' = ScanResult("none", 0)
         ELSE sc_pc' = "done" /\ sc_ret' = ScanResult("http_error", 0)

\* a chunk is read and appended, and the pattern is run over the buffer
scan_chunk(size) ==
    /\ sc_pc = "read"
    /\ sc_pos + size <= Len(sc_doc)
    /\ LET buf == sc_buf \o SubSeq(sc_doc, sc_pos + 1, sc_pos + size)
           r == ScanFrom(buf, 1, sc_cat)
       IN  /\ sc_count' = sc_count + r.n
           /\ sc_buf' = IF r.n > 0 THEN Advance(buf, r.end) ELSE Retained(buf)
           /\ h_straddle' = (h_straddle \/ (r.n > 0 /\ r.first <= Len(sc_buf)))
    /\ sc_pos' = sc_pos + size
    /\ UNCHANGED <<sc_pc, sc_cat, sc_doc, sc_ret, h_k>>

\* the stream has ended: the count is returned and the buffer is discarded
scan_close ==
    /\ sc_pc = "read"
    /\ sc_pos = Len(sc_doc)
    /\ sc_pc' = "done"
    /\ sc_ret' = ScanResult("count", sc_count)
    /\ sc_buf' = <<>>
    /\ UNCHANGED <<sc_cat, sc_doc, sc_pos, sc_count, h_k, h_straddle>>

\* the read of the next chunk times out
scan_timeout ==
    /\ sc_pc = "read"
    /\ sc_pos < Len(sc_doc)
    /\ sc_pc' = "done"
    /\ sc_ret' = ScanResult("timeout", 0)
    /\ sc_buf' = <<>>
    /\ UNCHANGED <<sc_cat, sc_doc, sc_pos, sc_count, h_k, h_straddle>>

\* the caller has taken the result; the locals of the scan are gone
scan_exit ==
    /\ sc_pc = "done"
    /\ sc_pc' = "idle"
    /\ sc_cat' = <<>> /\ sc_doc' = <<>> /\ sc_pos' = 0 /\ sc_count' = 0
    /\ h_k' = 0 /\ h_straddle' = FALSE
    /\ UNCHANGED <<sc_buf, sc_ret>>

ScanInit ==
    /\ sc_pc = "idle"
    /\ sc_cat = <<>>
    /\ sc_doc = <<>>
    /\ sc_pos = 0
    /\ sc_buf = <<>>
    /\ sc_count = 0
    /\ sc_ret = ScanResult("none", 0)
    /\ h_k = 0
    /\ h_straddle = FALSE

\* ------------------------------------------------------------------------
\* Specifications
\* ------------------------------------------------------------------------

\* ------------------------------------------------------------------------
\* api.py _get_admin_headers and trigger_data_extraction
\* ------------------------------------------------------------------------

\* what the data-connector endpoint answers
ExportStatuses == {200, 201, 403, 500}

NoHeaders == [h \in {} |-> None]

\* lines 946-954: the headers; x-user-id is set only for an id found
AdminHeaders(token, admin_id) ==
    [h \in {"Authorization"} \cup (IF admin_id # None THEN {"x-user-id"} ELSE {}) |->
        IF h = "Authorization" THEN token ELSE admin_id]

\* line 963: the headers carry x-user-id
HasUserId_Always(headers) == TRUE

HasUserId(headers) == "x-user-id" \in DOMAIN headers

\* line 976: the export was accepted
ExportAccepted(status) == status \in {200, 201}

\* lines 956-958: the tool is called and asks for the hub id
export_start ==
    /\ x_pc = "idle"
    /\ hub_pc = "idle"
    /\ hub_pc' = "call"
    /\ x_pc' = "hub"
    /\ UNCHANGED <<x_account, x_headers, x_result, h_xreq, h_xhub, h_xuid>>
    /\ UNCHANGED <<hub_cache, hub_ret>>
    /\ UNCHANGED <<authVars, reqVars, actVars>>

\* lines 958-962 and 945: without a hub id the error value is returned; with
\* one, _get_admin_headers begins with get_token(); what the hub lookup
\* raises leaves the tool
export_hub_take ==
    /\ x_pc = "hub"
    /\ hub_pc = "done"
    /\ hub_pc' = "idle"
    /\ hub_ret' = None
    /\ h_xhub' = hub_ret
    /\ IF hub_ret = Raised
         THEN /\ x_pc' = "done"
              /\ x_result' = "raised"
              /\ UNCHANGED <<x_account, authVars>>
         ELSE IF hub_ret = None
         THEN /\ x_pc' = "done"
              /\ x_result' = "error"
              /\ UNCHANGED <<x_account, authVars>>
         ELSE /\ x_account' = hub_ret
              /\ get_token_enter(Me, FALSE)
              /\ x_pc' = "token"
              /\ UNCHANGED x_result
    /\ UNCHANGED <<x_headers, h_xreq, h_xuid>>
    /\ UNCHANGED hub_cache
    /\ UNCHANGED <<reqVars, actVars>>

\* lines 945-951: get_token returns or raises; with a token,
\* get_acting_user_id(account_id) is called
export_take_token ==
    /\ x_pc = "token"
    /\ pc[Me] = "done"
    /\ get_token_exit(Me)
    /\ IF ret[Me] = Raised
         THEN /\ x_pc' = "done"
              /\ x_result' = "raised"
              /\ UNCHANGED <<x_headers, actVars>>
         ELSE /\ x_headers' = AdminHeaders(ret[Me], None)
              /\ acting_enter(x_account, NoEmail)
              /\ x_pc' = "uid"
              /\ UNCHANGED x_result
    /\ UNCHANGED <<x_account, h_xreq, h_xhub, h_xuid>>
    /\ UNCHANGED <<reqVars, hubVars>>

\* lines 951-954 and 962-964: the headers are complete; without x-user-id
\* the error value is returned
export_uid_take ==
    /\ x_pc = "uid"
    /\ acting_exit
    /\ h_xuid' = a_ret
    /\ x_headers' = AdminHeaders(x_headers["Authorization"], a_ret)
    /\ IF HasUserId(x_headers')
         THEN /\ x_pc' = "post"
              /\ UNCHANGED x_result
         ELSE /\ x_pc' = "done"
              /\ x_result' = "error"
    /\ UNCHANGED <<x_account, h_xreq, h_xhub>>
    /\ UNCHANGED <<authVars, reqVars, hubVars>>

\* lines 966-978: the export request is sent and its answer returned
export_post(status, body) ==
    /\ x_pc = "post"
    /\ h_xreq' = Append(h_xreq, x_headers)
    /\ x_result' = IF status = NetFail THEN "raised"
                    ELSE IF ~ExportAccepted(status) THEN "error"
                    ELSE IF body = "bad" THEN "raised"
                    ELSE "json"
    /\ x_pc' = "done"
    /\ UNCHANGED <<x_account, x_headers, h_xhub, h_xuid>>
    /\ UNCHANGED <<authVars, reqVars, hubVars, actVars>>

\* the caller has taken the result
export_exit ==
    /\ x_pc = "done"
    /\ x_pc' = "idle"
    /\ x_account' = None
    /\ x_headers' = NoHeaders
    /\ x_result' = "none"
    /\ h_xreq' = <<>>
    /\ h_xhub' = None
    /\ h_xuid' = None
    /\ UNCHANGED <<authVars, reqVars, hubVars, actVars>>

ExpInit ==
    /\ x_pc = "idle"
    /\ x_account = None
    /\ x_headers = NoHeaders
    /\ x_result = "none"
    /\ h_xreq = <<>>
    /\ h_xhub = None
    /\ h_xuid = None

\* ------------------------------------------------------------------------
\* api.py resolve_to_version_id, get_latest_version_urn and the first test
\* of resolve_file_to_urn
\* ------------------------------------------------------------------------

FsFile == <<"f", "s", ".", "f", "i", "l", "e">>
VersionEq == <<"v", "e", "r", "s", "i", "o", "n", "=">>
LineagePrefix ==
    UrnPrefix \o <<".", "w", "i", "p", "p", ":", "d", "m", ".", "l", "i", "n", "e", "a", "g", "e">>

\* urn:adsk.wipp:dm.lineage:a, a lineage
IdLineage == LineagePrefix \o <<":", "a">>
\* urn:adsk.w:fs.file:a?version=1, a version
IdVersion == UrnPrefix \o <<".", "w", ":">> \o FsFile \o <<":", "a", "?">> \o VersionEq \o <<"1">>
\* urn:adsk:fs.file:b and a?version=2, each with one of the two marks
IdFsOnly == UrnPrefix \o <<":">> \o FsFile \o <<":", "b">>
IdVerOnly == <<"a", "?">> \o VersionEq \o <<"2">>
\* urn:adsk:f, a URN that is neither a lineage nor a version
IdFolder == UrnPrefix \o <<":", "f">>
\* d.rvt, a file name
IdName == <<"d", ".", "r", "v", "t">>

\* the identifiers a caller passes
VersionArgs == {IdLineage, IdVersion, IdFsOnly, IdVerOnly, IdFolder, IdName}

\* the id of the tip that an answer names; NoTip: the answer names none
NoTip == <<>>
TipIds == {IdVersion, IdFolder, NoTip}

Ident(id) == [kind |-> "id", id |-> id]
NoIdent == [kind |-> "none", id |-> <<>>]
RaisedIdent == [kind |-> "raised", id |-> <<>>]
NoCall == [fn |-> "none", ret |-> NoIdent, ok |-> FALSE, req |-> 0]

\* lines 632 and 1073: the identifier is a version identifier already
IsVersionId_FsOnly(id) == Contains(id, FsFile)

IsVersionId(id) == Contains(id, FsFile) \/ Contains(id, VersionEq)

\* line 640: the identifier is a lineage
IsLineage(id) == Len(id) >= Len(LineagePrefix) /\ SubSeq(id, 1, Len(LineagePrefix)) = LineagePrefix

\* lines 648, 1094, 1105 and 1109: what a call that found no tip returns
Fallback(fn, arg) == IF fn = "resolve" THEN Ident(arg) ELSE NoIdent

\* a call of fn with arg begins
version_begin(fn, arg) ==
    /\ vr_pc = "idle"
    /\ vr_fn' = fn
    /\ vr_arg' = arg
    /\ UNCHANGED h_prev

\* lines 632-633 and 1073-1075: a version identifier is returned as it is
version_pass(fn, arg) ==
    /\ version_begin(fn, arg)
    /\ fn \in {"latest", "resolve"}
    /\ IsVersionId(arg)
    /\ vr_ret' = Ident(arg)
    /\ h_vok' = TRUE
    /\ vr_pc' = "done"
    /\ UNCHANGED <<h_vtok, h_vreq>>
    /\ UNCHANGED authVars

\* lines 635 and 1078: for any other identifier get_token() is called
version_get_token(fn, arg) ==
    /\ version_begin(fn, arg)
    /\ fn \in {"latest", "resolve"}
    /\ ~IsVersionId(arg)
    /\ get_token_enter(Me, FALSE)
    /\ h_vtok' = TRUE
    /\ vr_pc' = "token"
    /\ UNCHANGED <<vr_ret, h_vok, h_vreq>>

\* lines 635-648 and 1078-1090: get_token returns or raises;
\* resolve_to_version_id goes on for a lineage only
version_take_token ==
    /\ vr_pc = "token"
    /\ pc[Me] = "done"
    /\ get_token_exit(Me)
    /\ IF ret[Me] = Raised \/ (vr_fn = "resolve" /\ ~IsLineage(vr_arg))
         THEN /\ vr_ret' = Fallback(vr_fn, vr_arg)
              /\ vr_pc' = "done"
         ELSE /\ vr_pc' = "request"
              /\ UNCHANGED vr_ret
    /\ UNCHANGED <<vr_fn, vr_arg, h_vtok, h_vreq, h_vok, h_prev>>

\* lines 642-648 and 1090-1109: the item request and its answer
version_request(status, body, tip) ==
    /\ vr_pc = "request"
    /\ h_vreq' = h_vreq + 1
    /\ IF status = HttpOk /\ body = "ok" /\ tip # NoTip
         THEN /\ vr_ret' = Ident(tip)
              /\ h_vok' = TRUE
         ELSE /\ vr_ret' = Fallback(vr_fn, vr_arg)
              /\ UNCHANGED h_vok
    /\ vr_pc' = "done"
    /\ UNCHANGED <<vr_fn, vr_arg, h_vtok, h_prev>>
    /\ UNCHANGED authVars

\* lines 1215-1219: resolve_file_to_urn returns a URN as it is
locate_pass(arg) ==
    /\ version_begin("locate", arg)
    /\ IsUrn(arg)
    /\ vr_ret' = Ident(arg)
    /\ h_vok' = TRUE
    /\ vr_pc' = "done"
    /\ UNCHANGED <<h_vtok, h_vreq>>
    /\ UNCHANGED authVars

\* lines 1221-1282: any other identifier is searched for in the folders (the
\* search itself is resolve_hub_take, find_top, find_scan, find_return and
\* resolve_search_take); it ends with the id of a file or raises
locate_search(arg, found) ==
    /\ version_begin("locate", arg)
    /\ ~IsUrn(arg)
    /\ vr_ret' = IF found = NoTip THEN RaisedIdent ELSE Ident(found)
    /\ h_vok' = (found # NoTip)
    /\ h_vreq' = h_vreq + 1
    /\ vr_pc' = "done"
    /\ UNCHANGED h_vtok
    /\ UNCHANGED authVars

\* the caller has taken the result
version_exit ==
    /\ vr_pc = "done"
    /\ h_prev' = [fn |-> vr_fn, ret |-> vr_ret, ok |-> h_vok, req |-> h_vreq]
    /\ vr_pc' = "idle"
    /\ vr_fn' = "none"
    /\ vr_arg' = <<>>
    /\ vr_ret' = NoIdent
    /\ h_vtok' = FALSE
    /\ h_vreq' = 0
    /\ h_vok' = FALSE
    /\ UNCHANGED authVars

VerInit ==
    /\ vr_pc = "idle"
    /\ vr_fn = "none"
    /\ vr_arg = <<>>
    /\ vr_ret = NoIdent
    /\ h_vtok = FALSE
    /\ h_vreq = 0
    /\ h_vok = FALSE
    /\ h_prev = NoCall

\* ------------------------------------------------------------------------
\* api.py inspect_generic_file
\* ------------------------------------------------------------------------

\* The messages; (x) stands for the cross mark, (!) for the warning sign,
\* (~) for the hourglass, (v) for the check mark and (t) for the stopwatch.
NoMessage == [kind |-> "none", text |-> ""]
Message(text) == [kind |-> "value", text |-> text]

\* line 1303
MsgNotFound(msg) == Message("(x) " \o msg)
\* line 1313
MsgNoVersion ==
    Message("(x) Error: Could not resolve Lineage URN to Version URN. File may not exist or has no versions.")
\* line 1339
MsgNotTranslated ==
    Message("(!) Not Translated. Translation required. The file exists but hasn't been processed by Model Derivative API yet.")
\* line 1342
MsgProcessing == Message("(~) Processing - Translation in progress. Please check again later.")
\* line 1346
MsgStatusError(status) == Message("(x) Error " \o ToString(status) \o ": Unable to inspect file.")
\* lines 1353-1362
MsgReady(progress) ==
    Message("(v) Ready for Extraction (Translation complete, progress: " \o progress \o ")")
MsgInProgress(progress) == Message("(~) Processing (Translation " \o progress \o "% complete)")
MsgFailed == Message("(x) Translation Failed - Check file format or try re-uploading")
MsgTimeout == Message("(t) Translation Timeout - File may be too large or complex")
MsgStatus(status, progress) == Message("Status: " \o status \o " (Progress: " \o progress \o ")")
\* lines 1364-1366
MsgGeneric(text) == Message("(x) Error: " \o text)

\* lines 1227, 1246, 1276 and 1282: what resolve_file_to_urn raises
LocateErrors ==
    {"Could not determine hub_id for file search",
     "Error searching for files: Error: 500",
     "Could not find file matching 'd.rvt' in project",
     "Error resolving file identifier: 'id'"}

\* the texts of the exceptions of the token exchange, of the request, of the
\* decoding and of a manifest that is no object or whose status is no string
ExcToken == "Token request failed"
ExcNet == "Connection refused"
ExcJson == "Expecting value: line 1 column 1 (char 0)"
ExcShape == "'list' object has no attribute 'get'"
ExcLower == "'NoneType' object has no attribute 'lower'"

\* what the manifest endpoint answers
ManifestStatuses == {200, 202, 401, 404, 500}
\* the bodies of a 200 answer: no JSON, a list, or an object
ManifestBodies == {"bad", "list", "object"}
\* the "status" of a manifest; NoStatus: the manifest has none; NullStatus:
\* it is null
NoStatus == "(none)"
NullStatus == "(null)"
TranslationStates ==
    {"success", "inprogress", "failed", "Failed", "timeout", "pending", NoStatus, NullStatus}
Progresses == {"complete", "50"}

\* line 1350: lower() on the statuses of TranslationStates, and "unknown"
\* for a manifest without status
LowerStatus(status) ==
    IF status = NoStatus THEN "unknown"
    ELSE IF status = "Failed" THEN "failed"
    ELSE status

Lineage == <<"l", "i", "n", "e", "a", "g", "e">>

\* lines 1308-1318: the branch that resolved_id takes
Branch(id) ==
    IF Contains(id, Lineage) THEN "lineage"
    ELSE IF Contains(id, FsFile) \/ Contains(id, VersionEq) THEN "version"
    ELSE "unclear"

\* lines 1338-1346: the message for a manifest answer that is not 200
ManifestMessage_Merged(status) ==
    IF status \in {404, 202} THEN MsgProcessing ELSE MsgStatusError(status)

ManifestMessage(status) ==
    IF status = 404 THEN MsgNotTranslated
    ELSE IF status = 202 THEN MsgProcessing
    ELSE MsgStatusError(status)

\* lines 1353-1362: the message for the status of a manifest
StatusMessage(status, progress) ==
    IF status = "success" THEN MsgReady(progress)
    ELSE IF status = "inprogress" THEN MsgInProgress(progress)
    ELSE IF status = "failed" THEN MsgFailed
    ELSE IF status = "timeout" THEN MsgTimeout
    ELSE MsgStatus(status, progress)

\* the outcome that a manifest answer stands for
ManifestCase(status) ==
    IF status = 404 THEN "not_translated"
    ELSE IF status = 202 THEN "processing"
    ELSE "other"
StatusCase(status) ==
    IF status = "inprogress" THEN "processing"
    ELSE IF status = "failed" THEN "failed"
    ELSE "other"

\* the call ends with a result
inspect_return(case, exc, result) ==
    /\ i_pc' = "done"
    /\ i_result' = result
    /\ h_icase' = case
    /\ h_iexc' = exc

\* lines 1296-1301: the tool is called and calls resolve_file_to_urn
inspect_start(arg, found) ==
    /\ i_pc = "idle"
    /\ IF IsUrn(arg) THEN locate_pass(arg) ELSE locate_search(arg, found)
    /\ i_pc' = "resolve"
    /\ UNCHANGED <<i_resolved, i_branch, i_version, i_result, h_icase, h_iexc, h_iprev>>

\* lines 1301-1325: resolve_file_to_urn has returned or raised
inspect_resolved(msg) ==
    /\ i_pc = "resolve"
    /\ version_exit
    /\ IF vr_ret.kind = "raised"
         THEN /\ inspect_return("not_found", "", MsgNotFound(msg))
              /\ UNCHANGED <<i_resolved, i_branch, i_version>>
         ELSE /\ i_resolved' = vr_ret.id
              /\ i_branch' = Branch(vr_ret.id)
              /\ i_version' = IF Branch(vr_ret.id) = "version" THEN vr_ret.id ELSE <<>>
              /\ i_pc' = IF Branch(vr_ret.id) = "version" THEN "encode" ELSE "latest"
              /\ UNCHANGED <<i_result, h_icase, h_iexc>>
    /\ UNCHANGED h_iprev

\* lines 1310 and 1321: get_latest_version_urn(project_id, resolved_id)
inspect_call_latest ==
    /\ i_pc = "latest"
    /\ version_pass("latest", i_resolved) \/ version_get_token("latest", i_resolved)
    /\ i_pc' = "latest_wait"
    /\ UNCHANGED <<i_resolved, i_branch, i_version, i_result, h_icase, h_iexc, h_iprev>>

\* lines 1310-1325: without a version a lineage ends the call, and any
\* other identifier is used as it is
inspect_versioned ==
    /\ i_pc = "latest_wait"
    /\ version_exit
    /\ IF vr_ret.kind = "none" /\ i_branch = "lineage"
         THEN /\ inspect_return("no_version", "", MsgNoVersion)
              /\ UNCHANGED i_version
         ELSE /\ i_version' = IF vr_ret.kind = "none" THEN i_resolved ELSE vr_ret.id
              /\ i_pc' = "encode"
              /\ UNCHANGED <<i_result, h_icase, h_iexc>>
    /\ UNCHANGED <<i_resolved, i_branch, h_iprev>>

\* lines 1328-1331: get_token() is called
inspect_get_token ==
    /\ i_pc = "encode"
    /\ get_token_enter(Me, FALSE)
    /\ i_pc' = "token"
    /\ UNCHANGED <<i_resolved, i_branch, i_version, i_result, h_icase, h_iexc, h_iprev>>
    /\ UNCHANGED verVars

\* line 1331: get_token returns or raises (lines 1364-1366 handle the raise)
inspect_take_token ==
    /\ i_pc = "token"
    /\ pc[Me] = "done"
    /\ get_token_exit(Me)
    /\ IF ret[Me] = Raised
         THEN inspect_return("generic", ExcToken, MsgGeneric(ExcToken))
         ELSE /\ i_pc' = "manifest"
              /\ UNCHANGED <<i_result, h_icase, h_iexc>>
    /\ UNCHANGED <<i_resolved, i_branch, i_version, h_iprev>>
    /\ UNCHANGED verVars

\* lines 1335-1366: the manifest request and its answer
inspect_manifest(status, body, state, progress) ==
    /\ i_pc = "manifest"
    /\ IF status = NetFail
         THEN inspect_return("generic", ExcNet, MsgGeneric(ExcNet))
         ELSE IF status # HttpOk
         THEN inspect_return(ManifestCase(status), "", ManifestMessage(status))
         ELSE IF body = "bad"
         THEN inspect_return("generic", ExcJson, MsgGeneric(ExcJson))
         ELSE IF body = "list"
         THEN inspect_return("generic", ExcShape, MsgGeneric(ExcShape))
         ELSE IF state = NullStatus
         THEN inspect_return("generic", ExcLower, MsgGeneric(ExcLower))
         ELSE inspect_return(StatusCase(LowerStatus(state)), "",
                             StatusMessage(LowerStatus(state), progress))
    /\ UNCHANGED <<i_resolved, i_branch, i_version, h_iprev>>
    /\ UNCHANGED <<authVars, verVars>>

\* the caller has taken the result
inspect_exit ==
    /\ i_pc = "done"
    /\ h_iprev' = [case |-> h_icase, result |-> i_result]
    /\ i_pc' = "idle"
    /\ i_resolved' = <<>>
    /\ i_branch' = "none"
    /\ i_version' = <<>>
    /\ i_result' = NoMessage
    /\ h_icase' = "none"
    /\ h_iexc' = ""
    /\ UNCHANGED <<authVars, verVars>>

InsInit ==
    /\ i_pc = "idle"
    /\ i_resolved = <<>>
    /\ i_branch = "none"
    /\ i_version = <<>>
    /\ i_result = NoMessage
    /\ h_icase = "none"
    /\ h_iexc = ""
    /\ h_iprev = [case |-> "none", result |-> NoMessage]

LateInit == ExpInit /\ VerInit /\ InsInit

\* a process in which neither ACC_ADMIN_ID nor ACC_ADMIN_EMAIL is set
Init ==
    /\ AuthInit /\ ViewInit /\ ReqInit /\ HubInit /\ ActInit /\ DirInit /\ PageInit
    /\ LocInit /\ ScanInit /\ HubcInit /\ LateInit
    /\ env_admin_id = None
    /\ admin_email_set = FALSE

\* a process with any setting of ACC_ADMIN_ID and ACC_ADMIN_EMAIL
ConfigInit ==
    /\ AuthInit /\ ViewInit /\ ReqInit /\ HubInit /\ ActInit /\ DirInit /\ PageInit
    /\ LocInit /\ ScanInit /\ HubcInit /\ LateInit
    /\ env_admin_id \in {None, EnvAdminId}
    /\ admin_email_set \in BOOLEAN

\* the variables that a step of the credential manager leaves alone
restOfAuth == <<viewVars, reqVars, hubVars, actVars, dirVars, pageVars, restVars>>

\* Concurrent invocations: any interleaving of the callers' steps
Next ==
    \/ (\E p \in Callers, f \in BOOLEAN : get_token_enter(p, f))
           /\ UNCHANGED restOfAuth
    \/ (\E p \in Callers : get_token_step(p)) /\ UNCHANGED restOfAuth
    \/ clear_token_cache_token /\ UNCHANGED restOfAuth
    \/ clear_token_cache_expiry /\ UNCHANGED restOfAuth
    \/ Tick /\ UNCHANGED restOfAuth

Spec == Init /\ [][Next]_vars

\* A single caller: calls of get_token and clear_token_cache never overlap
SeqNext ==
    \/ (\E p \in Callers, f \in BOOLEAN : AllIdle /\ get_token_enter(p, f))
           /\ UNCHANGED restOfAuth
    \/ (\E p \in Callers : get_token_step(p)) /\ UNCHANGED restOfAuth
    \/ AllIdle /\ clear_token_cache_token /\ UNCHANGED restOfAuth
    \/ clear_token_cache_expiry /\ UNCHANGED restOfAuth
    \/ Tick /\ UNCHANGED restOfAuth

SpecSeq == Init /\ [][SeqNext]_vars

\* Invocations of get_view_guid_only, one after the other
ViewNext ==
    \/ view_start /\ UNCHANGED <<restVars, reqVars, hubVars, actVars, dirVars, pageVars>>
    \/ view_get_token /\ UNCHANGED <<restVars, reqVars, hubVars, actVars, dirVars, pageVars>>
    \/ get_token_inner(Me) /\ UNCHANGED restOfAuth
    \/ view_take_token /\ UNCHANGED <<restVars, reqVars, hubVars, actVars, dirVars, pageVars>>
    \/ (v_pc = "request" /\
           \E s \in ViewStatuses \cup {NetFail}, b \in ViewBodies : view_request(s, b))
           /\ UNCHANGED <<restVars, reqVars, hubVars, actVars, dirVars, pageVars>>
    \/ view_exit /\ UNCHANGED <<restVars, reqVars, hubVars, actVars, dirVars, pageVars>>
    \/ Tick /\ UNCHANGED restOfAuth

SpecView == Init /\ [][ViewNext]_vars

\* Invocations of make_api_request, one after the other
ReqNext ==
    \/ request_start /\ UNCHANGED <<restVars, dirVars, viewVars, hubVars, actVars, pageVars>>
    \/ request_get_token /\ UNCHANGED <<restVars, dirVars, viewVars, hubVars, actVars, pageVars>>
    \/ get_token_inner(Me) /\ UNCHANGED restOfAuth
    \/ request_take_token /\ UNCHANGED <<restVars, dirVars, viewVars, hubVars, actVars, pageVars>>
    \/ (r_pc = "send" /\
           \E s \in ApiStatuses \cup {NetFail}, b \in {"ok", "bad"}, d \in HubData :
               request_send(s, b, d))
           /\ UNCHANGED <<restVars, dirVars, viewVars, hubVars, actVars, pageVars>>
    \/ request_exit /\ UNCHANGED <<restVars, dirVars, viewVars, hubVars, actVars, pageVars>>
    \/ Tick /\ UNCHANGED restOfAuth

SpecReq == Init /\ [][ReqNext]_vars

\* Invocations of fetch_paginated_data, one after the other, with the hub
\* lookups, identity lookups and token calls they make
PageNext ==
    \/ (\E st \in Styles, imp \in BOOLEAN : page_start(st, imp)) /\ UNCHANGED <<restVars, viewVars, dirVars>>
    \/ page_return /\ UNCHANGED <<restVars, viewVars, dirVars>>
    \/ page_get_token /\ UNCHANGED <<restVars, viewVars, dirVars>>
    \/ page_take_token /\ UNCHANGED <<restVars, viewVars, dirVars>>
    \/ page_call_hub /\ UNCHANGED <<restVars, viewVars, dirVars>>
    \/ page_inject_hub_take /\ UNCHANGED <<restVars, viewVars, dirVars>>
    \/ page_inject_uid_take /\ UNCHANGED <<restVars, viewVars, dirVars>>
    \/ (pg_pc = "send" /\ \E s \in PageStatuses \cup {NetFail} :
           \E b \in (IF s = HttpOk THEN PageAnswers(pg_style, page_count, h_served)
                                     ELSE {NoBody}) :
               page_send(s, b)) /\ UNCHANGED <<restVars, viewVars, dirVars>>
    \/ page_esc_hub_take /\ UNCHANGED <<restVars, viewVars, dirVars>>
    \/ page_esc_uid_take /\ UNCHANGED <<restVars, viewVars, dirVars>>
    \/ (pg_pc = "esc_send" /\ \E s \in PageStatuses \cup {NetFail} :
           \E b \in (IF s = HttpOk THEN PageAnswers(pg_style, page_count, h_served)
                                     ELSE {NoBody}) :
               page_esc_send(s, b)) /\ UNCHANGED <<restVars, viewVars, dirVars>>
    \/ page_fail /\ UNCHANGED <<restVars, viewVars, dirVars>>
    \/ page_bad_json /\ UNCHANGED <<restVars, viewVars, dirVars>>
    \/ page_accept /\ UNCHANGED <<restVars, viewVars, dirVars>>
    \/ page_exit /\ UNCHANGED <<restVars, viewVars, dirVars>>
    \/ hub_lookup /\ UNCHANGED <<restVars, dirVars, viewVars, actVars, pageVars>>
    \/ hub_take /\ UNCHANGED <<restVars, dirVars, viewVars, actVars, pageVars>>
    \/ request_get_token /\ UNCHANGED <<restVars, dirVars, viewVars, hubVars, actVars, pageVars>>
    \/ request_take_token /\ UNCHANGED <<restVars, dirVars, viewVars, hubVars, actVars, pageVars>>
    \/ (r_pc = "send" /\
           \E s \in ApiStatuses \cup {NetFail}, b \in {"ok", "bad"}, d \in HubData :
               request_send(s, b, d))
           /\ UNCHANGED <<restVars, dirVars, viewVars, hubVars, actVars, pageVars>>
    \/ acting_hit /\ UNCHANGED <<restVars, dirVars, viewVars, reqVars, pageVars>>
    \/ acting_miss /\ UNCHANGED <<restVars, dirVars, viewVars, reqVars, pageVars>>
    \/ acting_direct /\ UNCHANGED <<restVars, dirVars, viewVars, reqVars, pageVars>>
    \/ acting_get_token /\ UNCHANGED <<restVars, dirVars, viewVars, reqVars, pageVars>>
    \/ acting_take_token /\ UNCHANGED <<restVars, dirVars, viewVars, reqVars, pageVars>>
    \/ (a_pc = "search" /\ \E u \in UserIds \cup {None} : acting_search(u))
           /\ UNCHANGED <<restVars, dirVars, viewVars, reqVars, pageVars>>
    \/ get_token_inner(Me) /\ UNCHANGED restOfAuth

SpecPage == ConfigInit /\ [][PageNext]_vars

\* a process in which ACC_ADMIN_ID is set
LongInit ==
    /\ AuthInit /\ ViewInit /\ ReqInit /\ HubInit /\ ActInit /\ DirInit /\ PageInit
    /\ LocInit /\ ScanInit /\ HubcInit /\ LateInit
    /\ env_admin_id = EnvAdminId
    /\ admin_email_set = FALSE

\* Invocations of fetch_paginated_data against a server whose chain of pages
\* has no end of its own
LongNext ==
    \/ (\E st \in Styles, imp \in BOOLEAN : page_start(st, imp))
           /\ UNCHANGED <<restVars, viewVars, dirVars>>
    \/ page_return /\ UNCHANGED <<restVars, viewVars, dirVars>>
    \/ page_get_token /\ UNCHANGED <<restVars, viewVars, dirVars>>
    \/ page_take_token /\ UNCHANGED <<restVars, viewVars, dirVars>>
    \/ page_call_hub /\ UNCHANGED <<restVars, viewVars, dirVars>>
    \/ page_inject_hub_take /\ UNCHANGED <<restVars, viewVars, dirVars>>
    \/ page_inject_uid_take /\ UNCHANGED <<restVars, viewVars, dirVars>>
    \/ (pg_pc = "send" /\ \E s \in PageStatuses \cup {NetFail} :
           \E b \in (IF s = HttpOk THEN LongAnswers(pg_style, h_served)
                                     ELSE {NoBody}) :
               page_send(s, b)) /\ UNCHANGED <<restVars, viewVars, dirVars>>
    \/ page_esc_hub_take /\ UNCHANGED <<restVars, viewVars, dirVars>>
    \/ page_esc_uid_take /\ UNCHANGED <<restVars, viewVars, dirVars>>
    \/ (pg_pc = "esc_send" /\ \E s \in PageStatuses \cup {NetFail} :
           \E b \in (IF s = HttpOk THEN LongAnswers(pg_style, h_served)
                                     ELSE {NoBody}) :
               page_esc_send(s, b)) /\ UNCHANGED <<restVars, viewVars, dirVars>>
    \/ page_fail /\ UNCHANGED <<restVars, viewVars, dirVars>>
    \/ page_accept /\ UNCHANGED <<restVars, viewVars, dirVars>>
    \/ page_exit /\ UNCHANGED <<restVars, viewVars, dirVars>>
    \/ hub_lookup /\ UNCHANGED <<restVars, viewVars, actVars, dirVars, pageVars>>
    \/ hub_take /\ UNCHANGED <<restVars, viewVars, actVars, dirVars, pageVars>>
    \/ request_get_token /\ UNCHANGED <<restVars, viewVars, hubVars, actVars, dirVars, pageVars>>
    \/ request_take_token /\ UNCHANGED <<restVars, viewVars, hubVars, actVars, dirVars, pageVars>>
    \/ (r_pc = "send" /\
           \E s \in ApiStatuses \cup {NetFail}, b \in {"ok", "bad"}, d \in HubData :
               request_send(s, b, d))
           /\ UNCHANGED <<restVars, viewVars, hubVars, actVars, dirVars, pageVars>>
    \/ acting_hit /\ UNCHANGED <<restVars, viewVars, reqVars, dirVars, pageVars>>
    \/ acting_miss /\ UNCHANGED <<restVars, viewVars, reqVars, dirVars, pageVars>>
    \/ acting_direct /\ UNCHANGED <<restVars, viewVars, reqVars, dirVars, pageVars>>
    \/ get_token_inner(Me) /\ UNCHANGED restOfAuth

\* Direct invocations of get_acting_user_id, one after the other, with the
\* hub lookups, token calls and directory searches they make
ActNext ==
    \/ (a_pc = "idle" /\ \E account \in HubIds \cup {None},
                             email \in RequesterEmails \cup {NoEmail} :
            act_call(account, email)) /\ UNCHANGED <<restVars, viewVars, reqVars, dirVars, pageVars>>
    \/ act_return /\ UNCHANGED <<restVars, viewVars, reqVars, dirVars, pageVars>>
    \/ acting_hit /\ UNCHANGED <<restVars, viewVars, reqVars, dirVars, pageVars>>
    \/ acting_miss /\ UNCHANGED <<restVars, viewVars, reqVars, dirVars, pageVars>>
    \/ acting_call_hub /\ UNCHANGED <<restVars, viewVars, reqVars, dirVars, pageVars>>
    \/ acting_hub_take /\ UNCHANGED <<restVars, viewVars, reqVars, dirVars, pageVars>>
    \/ acting_direct /\ UNCHANGED <<restVars, viewVars, reqVars, dirVars, pageVars>>
    \/ acting_get_token /\ UNCHANGED <<restVars, viewVars, reqVars, dirVars, pageVars>>
    \/ acting_take_token /\ UNCHANGED <<restVars, viewVars, reqVars, dirVars, pageVars>>
    \/ (a_pc = "search" /\ d_pc = "idle" /\ \E w \in Worlds : dir_start(w))
           /\ UNCHANGED <<restVars, authVars, viewVars, reqVars, hubVars, actVars, pageVars>>
    \/ (d_pc = "request" /\
           \E ans \in DirAnswers(d_world[d_variant], d_variant, d_offset, d_target) :
               dir_request(ans))
           /\ UNCHANGED <<restVars, authVars, viewVars, reqVars, hubVars, actVars, pageVars>>
    \/ (d_pc = "done" /\ acting_search_take) /\ UNCHANGED <<restVars, viewVars, reqVars, pageVars>>
    \/ hub_lookup /\ UNCHANGED <<restVars, viewVars, actVars, dirVars, pageVars>>
    \/ hub_take /\ UNCHANGED <<restVars, viewVars, actVars, dirVars, pageVars>>
    \/ request_get_token /\ UNCHANGED <<restVars, viewVars, hubVars, actVars, dirVars, pageVars>>
    \/ request_take_token /\ UNCHANGED <<restVars, viewVars, hubVars, actVars, dirVars, pageVars>>
    \/ (r_pc = "send" /\
           \E s \in ApiStatuses \cup {NetFail}, b \in {"ok", "bad"}, d \in HubData :
               request_send(s, b, d))
           /\ UNCHANGED <<restVars, viewVars, hubVars, actVars, dirVars, pageVars>>
    \/ get_token_inner(Me) /\ UNCHANGED restOfAuth

SpecAct == ConfigInit /\ [][ActNext]_vars

\* a process in which ACC_ADMIN_EMAIL is set and ACC_ADMIN_ID is not
MemoInit ==
    /\ AuthInit /\ ViewInit /\ ReqInit /\ HubInit /\ ActInit /\ DirInit /\ PageInit
    /\ LocInit /\ ScanInit /\ HubcInit /\ LateInit
    /\ env_admin_id = None
    /\ admin_email_set = TRUE

\* Direct invocations of get_acting_user_id with more keys than the
\* lru_cache holds
MemoNext ==
    \/ (a_pc = "idle" /\ \E key \in {ProbeKey} \cup {FillerKey(i) : i \in 1..MemoSize} :
            memo_call(key)) /\ UNCHANGED <<restVars, viewVars, reqVars, dirVars, pageVars>>
    \/ act_return /\ UNCHANGED <<restVars, viewVars, reqVars, dirVars, pageVars>>
    \/ acting_hit /\ UNCHANGED <<restVars, viewVars, reqVars, dirVars, pageVars>>
    \/ acting_miss /\ UNCHANGED <<restVars, viewVars, reqVars, dirVars, pageVars>>
    \/ acting_get_token /\ UNCHANGED <<restVars, viewVars, reqVars, dirVars, pageVars>>
    \/ acting_take_token /\ UNCHANGED <<restVars, viewVars, reqVars, dirVars, pageVars>>
    \/ (a_pc = "search" /\ \E u \in MemoYields(Key, a_strategy) : acting_search(u))
           /\ UNCHANGED <<restVars, viewVars, reqVars, dirVars, pageVars>>
    \/ get_token_inner(Me) /\ UNCHANGED restOfAuth

SpecMemo == MemoInit /\ [][MemoNext]_vars

\* Invocations of get_acting_user_id for a known account whose directory
\* never ends its list: at every offset a variant may answer a full page
\* without the target. The requests of one search are counted up to
\* MaxDirRequests.
MaxDirRequests == 4
DirLongNext ==
    \/ (a_pc = "idle" /\ \E account \in HubIds, email \in RequesterEmails \cup {NoEmail} :
            act_call(account, email)) /\ UNCHANGED <<restVars, viewVars, reqVars, dirVars, pageVars>>
    \/ act_return /\ UNCHANGED <<restVars, viewVars, reqVars, dirVars, pageVars>>
    \/ acting_hit /\ UNCHANGED <<restVars, viewVars, reqVars, dirVars, pageVars>>
    \/ acting_miss /\ UNCHANGED <<restVars, viewVars, reqVars, dirVars, pageVars>>
    \/ acting_get_token /\ UNCHANGED <<restVars, viewVars, reqVars, dirVars, pageVars>>
    \/ acting_take_token /\ UNCHANGED <<restVars, viewVars, reqVars, dirVars, pageVars>>
    \/ (a_pc = "search" /\ d_pc = "idle" /\ \E w \in Worlds : dir_start(w))
           /\ UNCHANGED <<restVars, authVars, viewVars, reqVars, hubVars, actVars, pageVars>>
    \/ (d_pc = "request" /\ Len(h_dlog) < MaxDirRequests /\
           \E ans \in DirAnswers(d_world[d_variant], d_variant, 0, d_target) :
               dir_request(ans))
           /\ UNCHANGED <<restVars, authVars, viewVars, reqVars, hubVars, actVars, pageVars>>
    \/ (d_pc = "done" /\ acting_search_take) /\ UNCHANGED <<restVars, viewVars, reqVars, pageVars>>
    \/ get_token_inner(Me) /\ UNCHANGED restOfAuth

\* every request is answered and every step of the search that can be
\* taken is taken
SpecDirLong == MemoInit /\ [][DirLongNext]_vars /\ WF_vars(DirLongNext)

\* Invocations of resolve_file_to_urn, one after the other, each for a
\* project, with the hub lookup and the folder walks it makes
LocateNext ==
    \/ (s_pc = "idle" /\ \E ident \in Identifiers, top \in TopAnswers,
                             tree \in TreeNames, fail \in FailSets :
            resolve_call(ident, top, tree, fail))
           /\ UNCHANGED <<lateVars, hubcVars, scanVars, authVars, viewVars, reqVars, actVars, dirVars, pageVars>>
    \/ resolve_hub_take
           /\ UNCHANGED <<lateVars, hubcVars, scanVars, authVars, viewVars, reqVars, actVars, dirVars, pageVars>>
    \/ find_top
           /\ UNCHANGED <<lateVars, hubcVars, scanVars, authVars, viewVars, reqVars, hubVars, actVars, dirVars, pageVars>>
    \/ find_scan
           /\ UNCHANGED <<lateVars, hubcVars, scanVars, authVars, viewVars, reqVars, hubVars, actVars, dirVars, pageVars>>
    \/ find_return
           /\ UNCHANGED <<lateVars, hubcVars, scanVars, authVars, viewVars, reqVars, hubVars, actVars, dirVars, pageVars>>
    \/ resolve_search_take
           /\ UNCHANGED <<lateVars, hubcVars, scanVars, authVars, viewVars, reqVars, hubVars, actVars, dirVars, pageVars>>
    \/ resolve_exit
           /\ UNCHANGED <<lateVars, hubcVars, scanVars, authVars, viewVars, reqVars, hubVars, actVars, dirVars, pageVars>>
    \/ hub_lookup /\ UNCHANGED <<viewVars, actVars, dirVars, pageVars, restVars>>
    \/ hub_take /\ UNCHANGED <<viewVars, actVars, dirVars, pageVars, restVars>>
    \/ request_get_token /\ UNCHANGED <<viewVars, hubVars, actVars, dirVars, pageVars, restVars>>
    \/ request_take_token /\ UNCHANGED <<viewVars, hubVars, actVars, dirVars, pageVars, restVars>>
    \/ (r_pc = "send" /\
           \E s \in ApiStatuses \cup {NetFail}, b \in {"ok", "bad"}, d \in HubData :
               request_send(s, b, d))
           /\ UNCHANGED <<viewVars, hubVars, actVars, dirVars, pageVars, restVars>>
    \/ get_token_inner(Me) /\ UNCHANGED restOfAuth

SpecLocate == Init /\ [][LocateNext]_vars

\* scans of documents, each read in chunks of any sizes
scanRest == <<authVars, viewVars, reqVars, hubVars, actVars, dirVars, pageVars, locVars,
              hubcVars, lateVars>>
ScanNext ==
    \/ (\E ps \in PieceSeqs, cat \in Categories, status \in ScanStatuses :
            scan_open(ps, cat, status)) /\ UNCHANGED scanRest
    \/ (\E size \in 1..MaxChunk : scan_chunk(size)) /\ UNCHANGED scanRest
    \/ scan_close /\ UNCHANGED scanRest
    \/ scan_timeout /\ UNCHANGED scanRest
    \/ scan_exit /\ UNCHANGED scanRest

SpecScan == Init /\ [][ScanNext]_vars

\* invocations that call get_cached_hub_id at the same time
\* Invocations of trigger_data_extraction, one after the other
expRest == <<viewVars, dirVars, pageVars, locVars, scanVars, hubcVars, verVars, insVars>>
ExportNext ==
    \/ export_start /\ UNCHANGED expRest
    \/ export_hub_take /\ UNCHANGED expRest
    \/ export_take_token /\ UNCHANGED expRest
    \/ export_uid_take /\ UNCHANGED expRest
    \/ (\E s \in ExportStatuses \cup {NetFail}, b \in {"ok", "bad"} : export_post(s, b))
           /\ UNCHANGED expRest
    \/ export_exit /\ UNCHANGED expRest
    \/ hub_lookup /\ UNCHANGED <<expRest, actVars, expVars>>
    \/ hub_take /\ UNCHANGED <<expRest, actVars, expVars>>
    \/ request_get_token /\ UNCHANGED <<expRest, hubVars, actVars, expVars>>
    \/ request_take_token /\ UNCHANGED <<expRest, hubVars, actVars, expVars>>
    \/ (r_pc = "send" /\
           \E s \in ApiStatuses \cup {NetFail}, b \in {"ok", "bad"}, d \in HubData :
               request_send(s, b, d))
           /\ UNCHANGED <<expRest, hubVars, actVars, expVars>>
    \/ acting_hit /\ UNCHANGED <<expRest, reqVars, expVars>>
    \/ acting_miss /\ UNCHANGED <<expRest, reqVars, expVars>>
    \/ acting_direct /\ UNCHANGED <<expRest, reqVars, expVars>>
    \/ acting_get_token /\ UNCHANGED <<expRest, reqVars, expVars>>
    \/ acting_take_token /\ UNCHANGED <<expRest, reqVars, expVars>>
    \/ (a_pc = "search" /\ \E u \in UserIds \cup {None} : acting_search(u))
           /\ UNCHANGED <<expRest, reqVars, expVars>>
    \/ get_token_inner(Me) /\ UNCHANGED restOfAuth

SpecExport == ConfigInit /\ [][ExportNext]_vars

\* Calls of the version and file resolvers, one after the other
verRest == <<viewVars, reqVars, hubVars, actVars, dirVars, pageVars, locVars, scanVars,
             hubcVars, expVars, insVars>>
VersionNext ==
    \/ (\E fn \in {"latest", "resolve"}, arg \in VersionArgs : version_pass(fn, arg))
           /\ UNCHANGED verRest
    \/ (\E fn \in {"latest", "resolve"}, arg \in VersionArgs : version_get_token(fn, arg))
           /\ UNCHANGED verRest
    \/ version_take_token /\ UNCHANGED verRest
    \/ (\E s \in ApiStatuses \cup {NetFail}, b \in {"ok", "bad"}, tip \in TipIds :
            version_request(s, b, tip)) /\ UNCHANGED verRest
    \/ (\E arg \in VersionArgs : locate_pass(arg)) /\ UNCHANGED verRest
    \/ (\E arg \in VersionArgs, found \in {IdLineage, NoTip} : locate_search(arg, found))
           /\ UNCHANGED verRest
    \/ version_exit /\ UNCHANGED verRest
    \/ (vr_pc = "token" /\ get_token_inner(Me)) /\ UNCHANGED restOfAuth

SpecVersion == Init /\ [][VersionNext]_vars

\* Invocations of inspect_generic_file, one after the other
insRest == <<viewVars, reqVars, hubVars, actVars, dirVars, pageVars, locVars, scanVars,
             hubcVars, expVars>>
InspectNext ==
    \/ (\E arg \in VersionArgs, found \in {IdLineage, IdFolder, NoTip} :
            inspect_start(arg, found)) /\ UNCHANGED insRest
    \/ (\E msg \in LocateErrors : inspect_resolved(msg)) /\ UNCHANGED insRest
    \/ inspect_call_latest /\ UNCHANGED insRest
    \/ (i_pc = "latest_wait" /\ version_take_token) /\ UNCHANGED <<insRest, insVars>>
    \/ (i_pc = "latest_wait" /\
           \E s \in ApiStatuses \cup {NetFail}, b \in {"ok", "bad"}, tip \in TipIds :
               version_request(s, b, tip)) /\ UNCHANGED <<insRest, insVars>>
    \/ inspect_versioned /\ UNCHANGED insRest
    \/ inspect_get_token /\ UNCHANGED insRest
    \/ inspect_take_token /\ UNCHANGED insRest
    \/ (\E s \in ManifestStatuses \cup {NetFail}, b \in ManifestBodies,
            st \in TranslationStates, pr \in Progresses :
                inspect_manifest(s, b, st, pr)) /\ UNCHANGED insRest
    \/ inspect_exit /\ UNCHANGED insRest
    \/ get_token_inner(Me) /\ UNCHANGED restOfAuth

SpecInspect == Init /\ [][InspectNext]_vars

hubcRest == <<authVars, viewVars, reqVars, hub_pc, hub_ret, actVars, dirVars, pageVars,
              locVars, scanVars, lateVars>>
HubNext ==
    \/ (\E p \in Callers : hubc_check(p)) /\ UNCHANGED hubcRest
    \/ (\E p \in Callers, result \in {"json", "error"}, data \in HubData :
            hubc_answer(p, result, data)) /\ UNCHANGED hubcRest
    \/ (\E p \in Callers : hubc_exit(p)) /\ UNCHANGED hubcRest

SpecHub == Init /\ [][HubNext]_vars

\* every request is answered or fails, and every step of the client that
\* can be taken is taken
SpecLong == LongInit /\ [][LongNext]_vars /\ WF_vars(LongNext)

\* ------------------------------------------------------------------------
\* Credential manager: properties
\* ------------------------------------------------------------------------

\* C1: in a sequence of get_token calls of a configured client, an exchange
\* request is sent only by a call that was forced or that finds the time at
\* or past the cached expiry; a call that sends none returns the token that
\* was cached when it began, and an unforced call that ends before the
\* cached expiry sends none.
C1_ExchangeOnlyWhenDue ==
    \A p \in Callers :
        (h_posted'[p] /\ ~h_posted[p]) =>
            (force_refresh[p] \/ now >= token_cache.expires_at)

C1_OtherCallsUseCache ==
    \A p \in Callers :
        (pc[p] = "done" /\ configured) =>
            /\ h_posted[p] \/ (ret[p] = h_cache0.access_token)
            /\ (~force_refresh[p] /\ now < h_cache0.expires_at) => ~h_posted[p]

\* C1: both parts, over every sequence of calls
C1_TokenReuse == [][C1_ExchangeOnlyWhenDue]_vars /\ []C1_OtherCallsUseCache

\* a call answered from a cache that an earlier exchange filled
C1_Witness ==
    \E p \in Callers :
        /\ pc[p] = "done" /\ ~h_posted[p] /\ ~force_refresh[p]
        /\ ret[p] = token_cache.access_token /\ ret[p] > 0
        /\ now < token_cache.expires_at
        /\ exchanges >= 1

\* C2: two overlapping unforced calls that both began with the cache expired
\* never both send an exchange, and they return the same token.
C2_SingleFlight ==
    \A p, q \in Callers :
        (/\ p # q
         /\ pc[p] # "idle" /\ pc[q] # "idle"
         /\ ~force_refresh[p] /\ ~force_refresh[q]
         /\ h_expired0[p] /\ h_expired0[q]) =>
            /\ ~(h_posted[p] /\ h_posted[q])
            /\ (pc[p] = "done" /\ pc[q] = "done" /\ ret[p] > 0 /\ ret[q] > 0)
                   => ret[p] = ret[q]

\* C3: a call whose exchange was answered with a status other than 200 raises
\* and leaves the cache as it was when the call began.
C3_NonSuccessFails ==
    \A p \in Callers :
        (pc[p] = "done" /\ h_posted[p] /\ h_resp # HttpOk /\ h_resp # NetFail) =>
            (ret[p] = Raised /\ token_cache = h_cache0)

\* C4: the first get_token call of a configured client after a clear sends an
\* exchange and does not return a token that a clear removed; a clear of the
\* empty cache leaves the cache as it is.
C4_FirstCallExchanges ==
    \A p \in Callers :
        (pc[p] = "done" /\ h_after_clear = "first" /\ configured) =>
            /\ h_posted[p]
            /\ ret[p] # Raised => (ret[p] # None /\ ret[p] # h_cleared)

C4_ClearOfEmptyIsNoop ==
    (clr' # clr /\ token_cache = EmptyCache) => token_cache' = EmptyCache

\* C4: both parts, over every sequence of calls and clears
C4_ClearInvalidates == []C4_FirstCallExchanges /\ [][C4_ClearOfEmptyIsNoop]_vars

\* the first call after a clear that removed a token returns a newer token
C4_Witness ==
    \E p \in Callers :
        /\ pc[p] = "done" /\ h_after_clear = "first"
        /\ h_cleared > 0 /\ ret[p] > h_cleared

\* ------------------------------------------------------------------------
\* get_view_guid_only and make_api_request: properties
\* ------------------------------------------------------------------------

\* C5: get_view_guid_only sends at most two metadata requests; when the
\* answers are 401 then 200 it has sent exactly two, the second with a token
\* that the forced exchange of the second attempt issued; a 401 answer to the
\* second request ends the call with the auth failure.
C5_RetryOnceOn401 ==
    /\ Len(v_log) <= 2
    /\ v_attempt <= 1
    /\ (v_pc = "done" /\ v_resps = <<401, 200>>) =>
           /\ Len(v_log) = 2
           /\ v_log[2].fresh
           /\ v_log[2].tok # v_log[1].tok
    /\ (v_pc = "done" /\ Len(v_resps) = 2 /\ v_resps[2] = 401) =>
           v_result = "auth_failure"

\* a call that got 401, retried with a fresh token and succeeded
C5_Witness ==
    /\ v_pc = "done" /\ v_resps = <<401, 200>> /\ v_result = "guid"
    /\ v_log[2].fresh

\* C6: a make_api_request call whose first answer is 401 has sent the request
\* a second time before it returns.
C6_RetryOn401 ==
    (r_pc = "done" /\ Len(r_resps) >= 1 /\ r_resps[1] = 401) => Len(r_sent) = 2

\* C7: a request that is answered 429 is sent a second time: a
\* make_api_request call whose first answer is 429 has sent two requests
\* when it returns, and so has a page of fetch_paginated_data when its answer
\* is handled.
C7_RetryOn429 ==
    /\ (r_pc = "done" /\ Len(r_resps) >= 1 /\ r_resps[1] = 429) => Len(r_sent) = 2
    /\ (pg_pc = "handle" /\ ~h_esc.done /\ pg_resp.status = 429) => Len(h_reqs) = 2

\* ------------------------------------------------------------------------
\* fetch_paginated_data: properties
\* ------------------------------------------------------------------------

\* the call has ended and no page was accepted
FirstPageFailed == pg_pc = "done" /\ first_request /\ h_fail.kind # "none"

C9_FailStep ==
    (pg_pc = "handle" /\ pg_resp.status # HttpOk /\ ~first_request) =>
        /\ pg_pc' = "done" /\ pg_result' = "list"
        /\ all_items' = all_items /\ h_sent' = h_sent

C9_AtEnd ==
    (pg_pc = "done" /\ ~first_request /\ h_fail.kind = "status") =>
        /\ pg_result = "list"
        /\ all_items = h_expected
        /\ \A i \in 1..Len(all_items) : all_items[i] = i

\* C9: the step that handles the failure, and the result at the end
C9_LaterFailureEndsStream == [][C9_FailStep]_vars /\ []C9_AtEnd

\* the second page ended with 500 after a first page with items
C9_Witness ==
    /\ pg_pc = "done" /\ ~first_request /\ page_count = 1
    /\ h_fail.kind = "status" /\ h_fail.status = 500
    /\ Len(all_items) >= 1 /\ pg_result = "list"

\* the escalation of the current page has been decided and carried out
EscalationOver == h_esc.done /\ pg_pc # "esc_send"

\* C10 as stated: after a 401 while impersonating, when the second lookup
\* finds an acting id, the page has been requested a second time, with that id.
C10_AlwaysRetried ==
    (EscalationOver /\ h_esc.found # None) =>
        (Len(h_reqs) = 2 /\ h_reqs[2] = h_esc.found)

\* C10 amended: after a 401 while impersonating the acting id is looked up
\* again through the memo, which never replaces an entry; the page is
\* requested a second time, once, exactly when the id found is not None and
\* differs from the x-user-id of the rejected request, and then with that id;
\* a request that carried an id gets the same id again and is not repeated.
C10_Escalation ==
    /\ Len(h_reqs) <= 2
    /\ EscalationOver =>
           /\ (Len(h_reqs) = 2) <=>
                  (h_esc.found # None /\ h_esc.found # h_esc.carried)
           /\ (Len(h_reqs) = 2) => h_reqs[2] = h_esc.found
           /\ (h_esc.carried # None) => h_esc.found = h_esc.carried

C10_MemoKept ==
    \A k \in HubIds :
        MemoLookup(acting_memo, <<k, NoEmail>>) # Absent =>
            MemoLookup(acting_memo', <<k, NoEmail>>) = MemoLookup(acting_memo, <<k, NoEmail>>)

\* C10 amended: the escalation, and the memo that the lookup goes through
C10_EscalationByMemo == []C10_Escalation /\ [][C10_MemoKept]_vars

\* a page first requested without x-user-id, answered 401, and requested
\* again with the id found
C10_Witness ==
    /\ EscalationOver /\ Len(h_reqs) = 2
    /\ h_reqs[1] = None /\ h_reqs[2] # None /\ h_reqs[2] = h_esc.found

\* ------------------------------------------------------------------------
\* Pagination engine: the page chain
\* ------------------------------------------------------------------------

\* the call has ended after a chain of pages that were all answered 200 and
\* decoded, the last of which named no further page
ChainDone(style) ==
    /\ pg_pc = "done" /\ pg_style = style
    /\ h_all_ok /\ h_fail.kind = "none" /\ current_url = None

\* C11: link-style pagination over a chain of N <= 50 pages returns the
\* concatenation of the pages' items in page order and sends exactly N
\* requests, the first to the url argument and each later one to the url
\* that the page before it named.
C11_LinkChain ==
    ChainDone("url") =>
        /\ page_count \in 1..MAX_PAGES
        /\ pg_result = "list" /\ all_items = h_expected
        /\ Len(h_log) = page_count
        /\ h_log[1] = Request(StartUrl, "url", 0)
        /\ \A i \in 2..Len(h_log) :
               h_log[i] = Request(NextUrl(h_log[i - 1].url), "url", 0)

\* a link chain of exactly 50 pages has been fetched
C11_Witness ==
    /\ ChainDone("url") /\ page_count = MAX_PAGES
    /\ Len(all_items) = MAX_PAGES * PageLimit

\* C12 (step): an accepted offset page ends the loop exactly when it is short
C12_Step ==
    (pg_style = "offset" /\ pg_pc = "handle" /\ pg_pc' = "loop") =>
        ((current_url' = None) <=> (Len(Batch(pg_resp.body)) < PageLimit))

\* C12 (end): one request per page, at offsets 0, limit, 2*limit, ...; all
\* pages but the last were full and the last was short; the result is the
\* concatenation of the pages
C12_AtEnd ==
    ChainDone("offset") =>
        /\ page_count \in 1..MAX_PAGES
        /\ pg_result = "list" /\ all_items = h_expected
        /\ Len(h_log) = page_count
        /\ \A i \in 1..Len(h_log) :
               h_log[i] = Request(StartUrl, "offset", (i - 1) * PageLimit)
        /\ Len(all_items) >= (page_count - 1) * PageLimit
        /\ Len(all_items) < page_count * PageLimit

\* C12: offset-style pagination over pages of sizes [limit, ..., limit, k],
\* k < limit, sends one request per page at offsets 0, limit, 2*limit, ...,
\* stops after the first short page and returns the concatenation.
C12_OffsetPages == []C12_AtEnd /\ [][C12_Step]_vars

\* pages of sizes [limit, limit, k] with 0 < k < limit have been fetched
C12_Witness ==
    /\ ChainDone("offset") /\ page_count = 3
    /\ Len(all_items) > 2 * PageLimit
    /\ h_log[3].offset = 2 * PageLimit

\* the call waits for a token exchange that the model does not grant
ExchangesUsedUp == pc[Me] = "post" /\ exchanges >= MaxExchanges

\* C13 (bounds): at most 50 pages are accepted, a page is requested at most
\* twice, and a call sends at most 100 requests
C13_Caps ==
    /\ page_count <= MAX_PAGES
    /\ Len(h_reqs) <= 2
    /\ h_sent <= 2 * MAX_PAGES
    /\ Len(all_items) <= MAX_PAGES * PageLimit

C14_Request ==
    (h_sent' = h_sent + 1) =>
        /\ (pg_imp /\ hub_cache # None
               /\ MemoLookup(acting_memo, <<hub_cache, NoEmail>>) \notin {Absent, None})
              => h_reqs'[Len(h_reqs')] = MemoLookup(acting_memo, <<hub_cache, NoEmail>>)
        /\ ~pg_imp => h_reqs'[Len(h_reqs')] = None

\* C14 (resolver): a call that does not impersonate invokes neither the hub
\* lookup nor the identity resolver
C14_NoResolver ==
    (pg_pc # "idle" /\ ~pg_imp) =>
        /\ a_pc = "idle" /\ hub_pc = "idle"
        /\ UNCHANGED <<acting_memo, hub_cache>>

\* C14 (rounds): a round that begins with the hub known carries an id on
\* its request whenever the resolver yields one
C14_Round ==
    (pg_pc = "send" /\ pg_imp /\ hub_cache # None) =>
        /\ MemoLookup(acting_memo, <<hub_cache, NoEmail>>) # Absent
        /\ pg_uid = MemoLookup(acting_memo, <<hub_cache, NoEmail>>)

\* C14: with impersonate=True and a resolvable acting user every page
\* request carries x-user-id equal to the resolver's result; with
\* impersonate=False no request carries x-user-id and the resolver is
\* never invoked.
C14_Impersonation ==
    /\ [][C14_Request]_vars /\ [][C14_NoResolver]_vars /\ []C14_Round

\* a page has been accepted whose request carried the id of the resolver
C14_Witness ==
    /\ pg_imp /\ page_count = 1 /\ Len(h_reqs) = 1
    /\ h_reqs[1] # None
    /\ h_reqs[1] = MemoLookup(acting_memo, <<hub_cache, NoEmail>>)


\* ------------------------------------------------------------------------
\* Identity resolver: properties
\* ------------------------------------------------------------------------

\* the priority of a strategy
Rank(strategy) ==
    CASE strategy = "override" -> 1 [] strategy = "requester" -> 2 [] OTHER -> 3

\* the call has run the body of get_acting_user_id and returned from it
Resolved == a_pc = "done" /\ ~h_hit /\ a_ret # Raised

\* C15: get_acting_user_id consults its strategies in the order override
\* id, requester email, administrator email; a strategy is consulted only
\* after every strategy before it yielded nothing, and the result is what
\* the last strategy consulted yielded: the id of the first that succeeds.
C15_PriorityOrder ==
    Resolved =>
        /\ \A i, j \in 1..Len(h_consulted) :
               i < j => Rank(h_consulted[i].strategy) < Rank(h_consulted[j].strategy)
        /\ \A i \in 1..(Len(h_consulted) - 1) : h_consulted[i].yield = None
        /\ \A i \in 1..Len(h_consulted) :
               /\ h_consulted[i].strategy = "requester" => a_email # NoEmail
               /\ h_consulted[i].strategy = "admin" => admin_email_set
        /\ a_ret = IF h_consulted = <<>> THEN None
                   ELSE h_consulted[Len(h_consulted)].yield

\* the override id is not set, the requester's email was not found and the
\* administrator's was
C15_Witness ==
    /\ Resolved /\ Len(h_consulted) = 3
    /\ h_consulted[2] = [strategy |-> "requester", yield |-> None]
    /\ h_consulted[3].strategy = "admin"
    /\ a_ret # None /\ a_ret = h_consulted[3].yield

\* C16: with ACC_ADMIN_ID set, get_acting_user_id of a client that has its
\* credentials returns that id for every input, whether or not the hub id
\* can be determined.
C16_OverrideAlways ==
    (a_pc = "done" /\ configured /\ env_admin_id # None) => a_ret = env_admin_id

\* C21: get_acting_user_id never raises: whatever fails (the token
\* exchange, the hub lookup, a directory request), the call returns an id
\* or None.
C21_NeverRaises == a_pc = "done" => a_ret # Raised

\* the search is over; the variants it asked, in the order of asking
Tried == {h_dlog[i].variant : i \in 1..Len(h_dlog)}
Searched == d_pc = "done"

\* C17 as stated: the id is returned whenever at least one variant lists the
\* target email.
C17_FoundWhenListed ==
    (Searched /\ \E v \in 1..NumVariants : d_world[v] = "found") => d_result # None

\* the variants that answer their user list completely
Answering == {v \in 1..NumVariants : d_world[v] # "failed"}
FirstAnswering == CHOOSE v \in Answering : \A w \in Answering : v <= w

\* C17 amended: the variants are asked in the order ACC Admin, HQ US, HQ EU,
\* the next one only when the one before failed; the first variant that
\* answers its list completely decides: the id of the user when it lists the
\* target email (whatever the case and the blanks around it), and no id
\* otherwise, without asking the variants after it.
C17_FirstAnsweringDecides ==
    Searched =>
        /\ \A i \in 1..Len(h_dlog) :
               h_dlog[i].variant = IF i = 1 THEN 1
                                   ELSE IF h_dlog[i].offset = 0
                                     THEN h_dlog[i - 1].variant + 1
                                     ELSE h_dlog[i - 1].variant
        /\ IF Answering = {}
             THEN Tried = 1..NumVariants /\ d_result = None
             ELSE /\ Tried = 1..FirstAnswering
                  /\ d_result = IF d_world[FirstAnswering] = "found"
                                  THEN UserOf(d_target) ELSE None

\* ACC Admin failed and HQ US lists the user under another spelling
C17_Witness ==
    /\ Searched /\ d_world[1] = "failed" /\ d_world[2] = "found"
    /\ d_target = <<"a">> /\ a_email = <<" ", "A">>
    /\ d_result = 1

\* C18 (step): an answer 404 of a variant that is not the last one makes
\* the search go to the next variant, at offset 0
C18_Step ==
    (d_pc = "request" /\ Len(h_dlog') > Len(h_dlog)
        /\ d_status' = 404 /\ d_variant < NumVariants) =>
        /\ d_pc' = "request"
        /\ d_variant' = d_variant + 1
        /\ d_offset' = 0

\* C18 (end): a search that ended on a 404 had no variant left
C18_AtEnd ==
    (Searched /\ d_status = 404) => (d_variant = NumVariants /\ d_result = None)

\* C18: a 404 of a directory variant, on its first or on a later page, makes
\* the next variant be tried; a 404 never ends the search without a result
\* while a variant is left.
C18_NotFoundFallsThrough == [][C18_Step]_vars /\ []C18_AtEnd

\* ACC Admin answered its second page with 404 and HQ US is asked next
C18_Witness ==
    /\ d_pc = "request" /\ d_status = 404 /\ d_variant = 2 /\ d_offset = 0
    /\ Len(h_dlog) = 2
    /\ h_dlog[2] = [variant |-> 1, offset |-> DirLimit]

\* the value that the last call with the current key returned
LastValue == MemoLookup(h_ghost, Key)
\* the other keys used since the last call with the current key
OthersSince == Len(h_ghost) - MemoIndex(h_ghost, Key)

C20_EntryKept ==
    \A i \in 1..Len(acting_memo) :
        \/ MemoLookup(acting_memo', acting_memo[i].key) = acting_memo[i].val
        \/ /\ i = 1 /\ Len(acting_memo) = MemoSize
           /\ ~MemoHas(acting_memo', acting_memo[i].key)

\* C20 (calls): a call whose key got an id before, and after whose last use
\* fewer than 16 other keys were used, returns that id
C20_SameWhileCached ==
    (a_pc = "done" /\ LastValue \notin {Absent, None} /\ OthersSince < MemoSize) =>
        a_ret = LastValue

WalkStep == f_pc = "scan" /\ folders_scanned' = folders_scanned + 1

\* in every state of a walk
C22_Caps ==
    /\ folders_scanned <= max_folders_to_scan
    /\ Len(h_fetched) = folders_scanned
    /\ (f_pc = "done" /\ f_ret.ok) =>
           (folder_queue = <<>> \/ folders_scanned = max_folders_to_scan)

\* C22: in one walk of find_design_files at most 50 folders are scanned:
\* every folder taken from the queue is counted and its contents are
\* requested once, whether or not the request succeeds; the walk ends at
\* the cap even when folders are still queued, and as every turn of its loop
\* counts a folder it ends on every folder graph.
C22_FolderCap ==
    /\ []C22_Caps
    /\ [][(f_pc = "scan" /\ f_pc' = "scan") => WalkStep]_vars

\* a walk has ended at the cap with folders still queued, one of its
\* contents requests having failed
C22_Witness ==
    /\ f_pc = "done" /\ f_ret.ok
    /\ folders_scanned = max_folders_to_scan /\ folder_queue # <<>>
    /\ \E i \in 1..Len(h_fetched) : h_fetched[i].id \in w_fail

\* the folders that a step of the walk has put into the queue
Queued == SubSeq(folder_queue', Len(folder_queue), Len(folder_queue'))

\* the scanned folder's files with one of the extensions are among the
\* files that the step has recorded
FilesRecorded ==
    \A i \in 1..Len(Contents(w_tree, Head(folder_queue).id)) :
        LET item == Contents(w_tree, Head(folder_queue).id)[i]
        IN  (item.type = "file" /\ HasExtension(item.name, f_exts)) =>
               \E k \in (Len(matching_files) + 1)..Len(matching_files') :
                   matching_files'[k].id = item.id

C23_Step ==
    WalkStep =>
        /\ \A i \in 1..Len(Queued) : Queued[i].depth = Head(folder_queue).depth + 1
        /\ Head(folder_queue).depth = max_depth =>
               /\ Queued = <<>>
               /\ Head(folder_queue).id \notin w_fail => FilesRecorded

\* C23: every folder that find_design_files queues has the depth of its
\* parent plus one, and at most 3; a folder of depth 3 has its matching
\* files recorded and none of its subfolders queued, so that no folder
\* deeper than 3 is fetched.
C23_DepthCap ==
    /\ [](/\ \A i \in 1..Len(folder_queue) : folder_queue[i].depth <= max_depth
          /\ \A i \in 1..Len(h_fetched) : h_fetched[i].depth <= max_depth)
    /\ [][C23_Step]_vars

\* the chain of folders was walked for dwg files: the file of the folder at
\* depth 3 is recorded and the folder below it was not fetched
C23_Witness ==
    /\ f_pc = "done" /\ w_tree = "chain"
    /\ \E i \in 1..Len(h_fetched) : h_fetched[i] = [id |-> 4, depth |-> max_depth]
    /\ \E k \in 1..Len(f_ret.files) : f_ret.files[k].id = 14
    /\ \A i \in 1..Len(h_fetched) : h_fetched[i].id # 5

\* the top-level folder named 'Project Files', or else the first one
PreferredTop ==
    LET top == w_top.folders
    IN  IF \E i \in 1..Len(top) : top[i].name = "Project Files"
          THEN top[CHOOSE i \in 1..Len(top) : top[i].name = "Project Files"].id
          ELSE top[1].id

\* C24: find_design_files starts its walk at the top-level folder named
\* 'Project Files' when there is one and at the first top-level folder
\* otherwise; for a project without top-level folders it returns an error
\* value and scans nothing.
C24_StartFolder ==
    (f_pc \in {"scan", "done"} /\ w_top.ok) =>
        IF w_top.folders = <<>>
          THEN f_pc = "done" /\ ~f_ret.ok /\ folders_scanned = 0 /\ h_fetched = <<>>
          ELSE /\ folders_scanned = 0 => folder_queue = <<[id |-> PreferredTop, depth |-> 0]>>
               /\ folders_scanned > 0 => h_fetched[1] = [id |-> PreferredTop, depth |-> 0]

\* a walk has started at 'Project Files', which was not the first folder
C24_Witness ==
    /\ f_pc = "done" /\ w_top.ok /\ Len(w_top.folders) = 2
    /\ w_top.folders[2].name = "Project Files"
    /\ h_fetched # <<>> /\ h_fetched[1].id = w_top.folders[2].id
    /\ w_top.folders[1].id # w_top.folders[2].id

\* the call is over and its identifier was a file name
Searched_Name == s_pc = "done" /\ ~IsUrn(s_ident)
HasDot(ident) == \E i \in 1..Len(ident) : ident[i] = "."
InExtList(ext) == \E k \in 1..Len(ExtList) : ExtList[k] = ext
ExtIndex(ext) == CHOOSE k \in 1..Len(ExtList) : ExtList[k] = ext
\* a search has found a file whose name is or contains the identifier
Matched(i) == h_searches[i].ok /\ HasMatching(h_searches[i].files, s_ident)

\* the call ended with the first matching file of its last search, and no
\* search before that one had a match
FirstMatchWins ==
    /\ \A i \in 1..Len(h_searches) :
           Matched(i) => i = Len(h_searches) /\ s_ret.kind = "id"
    /\ s_ret.kind = "id" =>
           /\ h_searches # <<>> /\ Matched(Len(h_searches))
           /\ LET files == h_searches[Len(h_searches)].files
              IN  \E k \in 1..Len(files) :
                     /\ files[k].id = s_ret.id
                     /\ NameMatches(s_ident, files[k].name)
                     /\ \A j \in 1..(k - 1) : ~NameMatches(s_ident, files[j].name)

\* C25: for a file name, resolve_file_to_urn searches with the name's own
\* extension first and then with the other extensions of the list rvt, dwg,
\* nwc, rcp, ifc, nwd in order; it returns the id of the first file in
\* search order whose lower-cased name is or contains the lower-cased
\* identifier, and searches no further after a match.
C25_OwnExtensionFirst ==
    (Searched_Name /\ h_searches # <<>>) =>
        /\ HasDot(s_ident) => h_searches[1].ext = OwnExtension(s_ident)
        /\ \A i, j \in 2..Len(h_searches) :
               i < j => ExtIndex(h_searches[i].ext) < ExtIndex(h_searches[j].ext)
        /\ FirstMatchWins

\* C25 as amended: the name's own extension is searched first when it is
\* one of the list; a name with another extension, or with none, is
\* searched with the extensions of the list in their order.
C25_SearchOrder ==
    (Searched_Name /\ h_searches # <<>>) =>
        /\ IF HasDot(s_ident) /\ InExtList(OwnExtension(s_ident))
             THEN /\ h_searches[1].ext = OwnExtension(s_ident)
                  /\ \A i \in 2..Len(h_searches) :
                         h_searches[i].ext # OwnExtension(s_ident)
                  /\ \A i, j \in 2..Len(h_searches) :
                         i < j => ExtIndex(h_searches[i].ext) < ExtIndex(h_searches[j].ext)
             ELSE \A i \in 1..Len(h_searches) : h_searches[i].ext = ExtList[i]
        /\ \A i \in 2..Len(h_searches) :
               \A k \in 1..Len(ExtList) :
                   (ExtIndex(h_searches[i].ext) > k /\ ExtList[k] # h_searches[1].ext)
                       => \E j \in 1..(i - 1) : h_searches[j].ext = ExtList[k]
        /\ FirstMatchWins

\* d.DWG was searched with dwg, which is not the first extension of the
\* list, and the first search found the file
C25_Witness ==
    /\ Searched_Name /\ Len(h_searches) = 1
    /\ h_searches[1].ext = Ext_dwg /\ h_searches[1].ext # ExtList[1]
    /\ s_ret.kind = "id"

\* C26: resolve_file_to_urn fails with the not-found error exactly when
\* every extension has been searched, each within the folder cap, and no
\* file matched; it fails before all extensions were searched only when the
\* hub id is missing, and it returns no value when nothing matched.
C26_NotFoundExactly ==
    Searched_Name =>
        /\ s_ret.kind = "not_found" <=>
               (Len(h_searches) = Len(ExtList) /\ \A i \in 1..Len(h_searches) : ~Matched(i))
        /\ \A i \in 1..Len(h_searches) : h_searches[i].scanned <= max_folders_to_scan
        /\ (s_ret.kind # "id" /\ Len(h_searches) < Len(ExtList)) =>
               s_ret.kind \in {"no_hub", "error"}
        /\ s_ret.kind = "id" => \E i \in 1..Len(h_searches) : Matched(i)

\* C26 as amended: it fails before all extensions were searched only when
\* the hub id cannot be determined (it is missing, or the hub lookup raises)
\* or when the first search itself fails, and then with an error that is
\* not the not-found error.
C26_NotFoundWhenExhausted ==
    Searched_Name =>
        /\ s_ret.kind = "not_found" <=>
               (Len(h_searches) = Len(ExtList) /\ \A i \in 1..Len(h_searches) : ~Matched(i))
        /\ s_ret.kind = "not_found" => h_searches[1].ok
        /\ \A i \in 1..Len(h_searches) : h_searches[i].scanned <= max_folders_to_scan
        /\ (s_ret.kind # "id" /\ Len(h_searches) < Len(ExtList)) =>
               \/ s_ret.kind \in {"no_hub", "error"} /\ h_searches = <<>>
               \/ s_ret.kind = "search_error" /\ Len(h_searches) = 1 /\ ~h_searches[1].ok
        /\ s_ret.kind = "id" => \E i \in 1..Len(h_searches) : Matched(i)

\* every extension was searched without a match, one search up to the cap
C26_Witness ==
    /\ Searched_Name /\ s_ret.kind = "not_found"
    /\ Len(h_searches) = Len(ExtList)
    /\ h_searches[1].scanned = max_folders_to_scan

\* the folders of a tree at a depth below its start folder
RECURSIVE AtDepth(_, _, _)
AtDepth(tree, start, depth) ==
    IF depth = 0 THEN {start}
    ELSE UNION {{Contents(tree, f)[i].id :
                    i \in {k \in 1..Len(Contents(tree, f)) :
                               Contents(tree, f)[k].type = "folder"}} :
                f \in AtDepth(tree, start, depth - 1)}

\* the places of the files of a tree that have a name: folder and position
TreeFolders == 1..7
FilesNamed(tree, name) ==
    {pl \in TreeFolders \X (1..3) :
        /\ pl[2] <= Len(Contents(tree, pl[1]))
        /\ Contents(tree, pl[1])[pl[2]].type = "file"
        /\ Contents(tree, pl[1])[pl[2]].name = name}

\* the project's tree has exactly one file with the identifier as its name,
\* in a folder at depth 2, every folder can be listed and the hub is known
UniqueAtDepth2 ==
    /\ Searched_Name /\ s_ret.kind \notin {"no_hub", "error"}
    /\ w_top.ok /\ w_top.folders # <<>> /\ w_fail = {}
    /\ Cardinality(FilesNamed(w_tree, s_ident)) = 1
    /\ \A pl \in FilesNamed(w_tree, s_ident) : pl[1] \in AtDepth(w_tree, PreferredTop, 2)
TheFile == Contents(w_tree, (CHOOSE pl \in FilesNamed(w_tree, s_ident) : TRUE)[1])
               [(CHOOSE pl \in FilesNamed(w_tree, s_ident) : TRUE)[2]]

\* C27: when the folder tree has exactly one file whose name equals the
\* identifier, at depth 2 and within the folder cap, resolve_file_to_urn
\* returns that file's item id.
C27_ResolvesUniqueFile ==
    UniqueAtDepth2 => s_ret = Returned("id", TheFile.id)

\* C27 as amended: it does so when the identifier's extension is one of the
\* list and no file with that extension that the walk meets before this
\* file has a name containing the identifier.
C27_ResolvesUnshadowed ==
    (/\ UniqueAtDepth2
     /\ HasDot(s_ident) /\ InExtList(OwnExtension(s_ident))
     /\ \A k \in 1..Len(h_searches[1].files) :
            NameMatches(s_ident, h_searches[1].files[k].name)
                => h_searches[1].files[k].id = TheFile.id)
        => s_ret = Returned("id", TheFile.id)

\* d.DWG, two folders down and with no other file of a like name, is found
C27_Witness ==
    /\ UniqueAtDepth2 /\ s_ident = <<"d", ".", "D", "W", "G">>
    /\ s_ret = Returned("id", 17)

\* ---------------------------------------------------------------------
\* Paginated fetch: the shapes of a page

\* the three shapes that carry the items xs, and the shapes that carry none
IsBareList(body, xs) == body.kind = "list" /\ body.items = xs
IsDataObject(body, xs) == body.kind = "dict" /\ body.data = ListField(xs)
IsResultsObject(body, xs) ==
    body.kind = "dict" /\ body.data.is # "list" /\ body.results = ListField(xs)
IsOtherShape(body) ==
    body.kind = "dict" /\ body.data.is # "list" /\ body.results.is # "list"
ItemSeqs == UNION {{Ids(first, n) : n \in 0..PageLimit} : first \in 0..(MaxChain * PageLimit)}

\* C28: an accepted page adds to all_items the list itself when the body is
\* a bare list, the list under 'data' when the body is an object with one,
\* otherwise the list under 'results' when the body is an object with one,
\* and nothing for any other shape: the three shapes give the same items.
C28_Accepted ==
    page_count' = page_count + 1 =>
        /\ \A xs \in ItemSeqs :
               (\/ IsBareList(pg_resp.body, xs)
                \/ IsDataObject(pg_resp.body, xs)
                \/ IsResultsObject(pg_resp.body, xs)) => all_items' = all_items \o xs
        /\ IsOtherShape(pg_resp.body) => all_items' = all_items
        /\ \/ IsOtherShape(pg_resp.body)
           \/ \E xs \in ItemSeqs : \/ IsBareList(pg_resp.body, xs)
                                    \/ IsDataObject(pg_resp.body, xs)
                                    \/ IsResultsObject(pg_resp.body, xs)
C28_ShapeNormalization == [][C28_Accepted]_vars

\* a page with its items under 'results', and something that is no list
\* under 'data', was accepted after an earlier page and its items were added
C28_Witness ==
    /\ pg_pc = "loop" /\ page_count >= 2 /\ pg_resp.status = HttpOk
    /\ pg_resp.body.kind = "dict" /\ pg_resp.body.data = ScalarField
    /\ pg_resp.body.results.is = "list" /\ Len(pg_resp.body.results.v) >= 1
    /\ Len(all_items) > Len(pg_resp.body.results.v)
    /\ SubSeq(all_items, Len(all_items) - Len(pg_resp.body.results.v) + 1, Len(all_items))
           = pg_resp.body.results.v

\* ---------------------------------------------------------------------
\* Streaming category scanner: properties

\* C29: a scan of a document that holds K field values with the term
\* returns K, however the document is split into chunks: a match that is
\* split across a chunk boundary is counted once and no text twice.
C29_ExactCount ==
    /\ sc_pc = "read" => sc_count <= h_k
    /\ (sc_pc = "done" /\ sc_ret.kind = "count") => sc_ret.n = h_k

\* of two or more matches, one began in one chunk and ended in a later one
C29_Witness ==
    /\ sc_pc = "done" /\ sc_ret.kind = "count"
    /\ h_straddle /\ h_k >= 2 /\ sc_ret.n = h_k

\* C30: after every pass the rolling buffer is no longer than a constant
\* that depends on the chunk size and the tail size only, not on the length
\* of the document or the number of the chunks.
BufferBound == IF TailSize > MaxChunk THEN TailSize ELSE MaxChunk
C30_BufferBound == Len(sc_buf) <= BufferBound

\* a document more than twice as long as the bound was read to its end, in
\* more chunks than the bound is long, and the buffer holds a full tail
C30_Witness ==
    /\ sc_pc = "read" /\ sc_pos = Len(sc_doc)
    /\ Len(sc_doc) > 2 * BufferBound
    /\ Len(sc_buf) = TailSize

\* the files with one of the extensions that the scanned folders list, folder
\* by folder in the order of scanning
RECURSIVE FilesInScanOrder(_, _, _, _)
FilesInScanOrder(tree, fail, exts, scanned) ==
    IF scanned = <<>> THEN <<>>
    ELSE (IF Head(scanned).id \in fail THEN <<>>
          ELSE SelectSeq(Contents(tree, Head(scanned).id),
                         LAMBDA item : item.type = "file"
                                       /\ \E k \in 1..Len(exts) :
                                              EndsWith(Lower(item.name), <<".">> \o exts[k])))
         \o FilesInScanOrder(tree, fail, exts, Tail(scanned))

\* C34: find_design_files scans the folders first in, first out: the depths
\* of the folders scanned one after another never decrease, a folder at
\* depth d is scanned before every folder at depth d+1, and the files
\* returned are listed in the order of the scan.
C34_FifoOrder ==
    /\ \A i, j \in 1..Len(h_fetched) :
           i < j => h_fetched[i].depth <= h_fetched[j].depth
    /\ \A i \in 1..Len(h_fetched), k \in 1..Len(folder_queue) :
           h_fetched[i].depth <= folder_queue[k].depth
    /\ \A i, j \in 1..Len(folder_queue) :
           i < j => folder_queue[i].depth <= folder_queue[j].depth
    /\ f_pc = "scan" =>
           matching_files = FilesInScanOrder(w_tree, w_fail, f_exts, h_fetched)
    /\ (f_pc = "done" /\ f_ret.ok) =>
           f_ret.files = FilesInScanOrder(w_tree, w_fail, f_exts, h_fetched)

\* a walk that scanned several folders at depth 1 and then folders at depth
\* 2 has returned files of more than one folder
C34_Witness ==
    /\ f_pc = "done" /\ f_ret.ok /\ Len(f_ret.files) >= 3
    /\ \E i, j, k \in 1..Len(h_fetched) :
           /\ i < j /\ j < k
           /\ h_fetched[i].depth = 1 /\ h_fetched[j].depth = 1
           /\ h_fetched[k].depth = 2

\* ---------------------------------------------------------------------
\* get_view_guid_only: the second attempt

\* C33: get_view_guid_only forces a token refresh and sends its second
\* request only when the first answer was 401; after any other first
\* answer the call ends having sent one request.
C33_RetryOnlyOn401 ==
    (v_resps # <<>> /\ v_resps[1] \in ViewStatuses \ {401}) =>
        /\ v_attempt = 0
        /\ Len(v_resps) = 1
        /\ v_pc \in {"done", "idle"}

\* ---------------------------------------------------------------------
\* get_cached_hub_id: callers at the same time

\* C32: of the invocations that call get_cached_hub_id at the same time
\* while no id is cached, one sends the hub-list request; an id that is
\* cached is never replaced by another, and a call that begins after an id
\* was cached sends no request.
C32_OneInFlight ==
    /\ \A p, q \in Callers : (hc_pc[p] = "wait" /\ hc_pc[q] = "wait") => p = q
    /\ \A p \in Callers : hc_pc[p] = "wait" => ~h_late[p]
C32_SingleRequest ==
    []C32_OneInFlight /\ [][hub_cache # None => hub_cache' = hub_cache]_vars

\* ---------------------------------------------------------------------
\* get_token and clear_token_cache at the same time

\* C37: however get_token and clear_token_cache calls interleave, a cached
\* expiry that lies in the future goes with a cached token that is not
\* None, and no get_token call returns None.
C37_NeverTorn ==
    /\ now < token_cache.expires_at => token_cache.access_token # None
    /\ \A p \in Callers : pc[p] = "done" => ret[p] # None

\* ---------------------------------------------------------------------
\* get_user_id_by_email: a directory whose list never ends

\* the page requests that the search has sent to a variant
RequestsTo(variant) == Cardinality({i \in 1..Len(h_dlog) : h_dlog[i].variant = variant})

\* C38: get_user_id_by_email ends after a bounded number of requests
\* whatever the directory answers: no variant is sent more than MaxDirPages
\* page requests, and a search that began returns, also when a variant
\* answers full pages without the target at every offset.
C38_SearchEnds ==
    /\ [](\A variant \in 1..NumVariants : RequestsTo(variant) <= MaxDirPages)
    /\ (d_pc = "request") ~> (d_pc = "done")

\* ---------------------------------------------------------------------------
\* fetch_paginated_data: exceptions
\* ---------------------------------------------------------------------------

\* C40: fetch_paginated_data never raises.  An exception while the token is
\* obtained, the request is sent or the answer is decoded ends the loop at
\* once, and the call returns the items accumulated so far as a list: the
\* empty list when the exception happens on the first page.
C40_ExceptionStep ==
    (h_fail.kind = "none" /\ h_fail'.kind = "exception") =>
        /\ pg_pc' = "done" /\ pg_result' = "list"
        /\ all_items' = all_items /\ first_request' = first_request

C40_AtEnd ==
    /\ pg_pc = "done" => pg_result \in {"list", "error"}
    /\ (pg_pc = "done" /\ h_fail.kind = "exception") =>
          /\ pg_result = "list"
          /\ all_items = h_expected
          /\ first_request => all_items = <<>>

C40_NeverRaises == [][C40_ExceptionStep]_vars /\ []C40_AtEnd

\* an exception after an accepted page: the items of that page are returned
C40_Witness ==
    /\ pg_pc = "done" /\ h_fail.kind = "exception" /\ ~first_request
    /\ pg_result = "list" /\ Len(all_items) >= 1

\* an exception on the first page: the empty list is returned
C40_WitnessFirst ==
    /\ pg_pc = "done" /\ h_fail.kind = "exception" /\ first_request
    /\ pg_result = "list" /\ all_items = <<>>

\* ---------------------------------------------------------------------------
\* trigger_data_extraction: properties
\* ---------------------------------------------------------------------------

C36_WitnessSent ==
    /\ x_pc = "done" /\ Len(h_xreq) = 1 /\ h_xreq[1]["x-user-id"] \in UserIds

\* ---------------------------------------------------------------------------
\* Version and file resolvers: properties
\* ---------------------------------------------------------------------------

\* the identifiers that contain 'fs.file' or 'version='
VersionIdentifiers ==
    {id \in VersionArgs \cup TipIds : Contains(id, FsFile) \/ Contains(id, VersionEq)}

\* a version identifier passed to get_latest_version_urn or
\* resolve_to_version_id comes back unchanged, with no call of get_token and
\* no request
VersionPassesThrough ==
    (vr_pc = "done" /\ vr_fn \in {"latest", "resolve"} /\ vr_arg \in VersionIdentifiers) =>
        (vr_ret = Ident(vr_arg) /\ ~h_vtok /\ h_vreq = 0)

\* a URN passed to resolve_file_to_urn comes back unchanged, with no search
UrnPassesThrough ==
    (vr_pc = "done" /\ vr_fn = "locate" /\ IsUrn(vr_arg)) =>
        (vr_ret = Ident(vr_arg) /\ h_vreq = 0)

\* this call applies the function of the call before to the result of that call
Reapplied ==
    /\ vr_pc = "done" /\ vr_fn \in {"latest", "resolve"}
    /\ h_prev.fn = vr_fn /\ h_prev.ok /\ vr_arg = h_prev.ret.id

NamedCases == {"not_found", "not_translated", "processing", "failed", "generic"}

\* C31: inspect_generic_file never raises: every call ends with a message.
\* An identifier that could not be resolved, a manifest answered 404, a
\* translation in progress, a failed translation and an exception not
\* handled elsewhere end with messages that differ from one outcome to the
\* other, and the exception ends with '(x) Error: ' and its text.
C31_NeverRaisesAndDistinct ==
    /\ i_pc = "done" => (i_result.kind = "value" /\ i_result.text # "")
    /\ (i_pc = "done" /\ h_icase = "generic") =>
          i_result.text = "(x) Error: " \o h_iexc
    /\ (i_pc = "done" /\ h_icase \in NamedCases /\ h_iprev.case \in NamedCases
           /\ h_icase # h_iprev.case) => i_result # h_iprev.result

\* a call that ended with 'not translated' after a call that ended with
\* 'still processing'
C31_Witness ==
    /\ i_pc = "done" /\ h_icase = "not_translated" /\ h_iprev.case = "processing"
    /\ i_result = MsgNotTranslated

\* a call whose token exchange failed after a call whose file was not found
C31_WitnessGeneric ==
    /\ i_pc = "done" /\ h_icase = "generic" /\ h_iexc = ExcToken
    /\ h_iprev.case = "not_found"

====
